---- MODULE Spec2Model ----
(***************************************************************************)
(* Agent memory and batch-dialogue engine (backend/app/agents).            *)
(*                                                                         *)
(* Three specifications share this module:                                 *)
(*   SpecParse    - the batch reply parser (safe_parse_agent_reply)        *)
(*   SpecValidate - batch validation (validate_batch_messages)             *)
(*   Spec         - the persisted state: agent creation, batch send,       *)
(*                  consolidation, undo-last and agent detail              *)
(***************************************************************************)
EXTENDS Integers, Sequences, FiniteSets, TLC

VARIABLES
    p_pc,       \* parser run: "input" (response drawn) or "done" (parsed)
    p_raw,      \* the raw model response handed to safe_parse_agent_reply
    p_out,      \* the list returned by safe_parse_agent_reply
    v_pc,       \* validation run: "input" or "done"
    v_msgs,     \* the message list handed to validate_batch_messages
    v_out,      \* the (is_valid, error) pair it returned
    db,         \* the committed database: agents, sessions, messages,
                \* prompt_history and knowledge_indexes tables
    today,      \* date.today()
    last,       \* the last service call: arguments, outcome, return values
                \* and the current_prompt stored when it began
    c_pc,       \* a call of the intent detector or of the knowledge search:
                \* "input" or "done"; with concurrent callers, the position
                \* of each caller in its call
    c_in,       \* what the call is given; with concurrent callers, what each
                \* caller has read so far
    c_out       \* what it returned

parse_vars == <<p_pc, p_raw, p_out>>
validate_vars == <<v_pc, v_msgs, v_out>>
db_vars == <<db, today, last>>
call_vars == <<c_pc, c_in, c_out>>
vars == <<p_pc, p_raw, p_out, v_pc, v_msgs, v_out, db, today, last, c_pc, c_in, c_out>>

-----------------------------------------------------------------------------
(* Text.  A Python str is a sequence of runs [c, n]: the symbol c repeated *)
(* n times, adjacent runs having different symbols.  len, +, strip and     *)
(* join are computed on the runs.                                          *)

Run(c, n) == [c |-> c, n |-> n]

Str(c) == <<Run(c, 1)>>

Rep(c, n) == IF n = 0 THEN <<>> ELSE <<Run(c, n)>>

Whitespace == {" ", "\n"}

RECURSIVE TLen(_)
TLen(t) == IF t = <<>> THEN 0 ELSE t[1].n + TLen(Tail(t))

Cat(a, b) ==
    IF a = <<>> THEN b
    ELSE IF b = <<>> THEN a
    ELSE IF a[Len(a)].c = b[1].c
         THEN SubSeq(a, 1, Len(a) - 1)
              \o <<Run(b[1].c, a[Len(a)].n + b[1].n)>>
              \o Tail(b)
         ELSE a \o b

RECURSIVE LStrip(_)
LStrip(t) ==
    IF t # <<>> /\ t[1].c \in Whitespace THEN LStrip(Tail(t)) ELSE t

RECURSIVE RStrip(_)
RStrip(t) ==
    IF t # <<>> /\ t[Len(t)].c \in Whitespace
    THEN RStrip(SubSeq(t, 1, Len(t) - 1))
    ELSE t

Strip(t) == RStrip(LStrip(t))

RECURSIVE Join(_, _)
Join(sep, parts) ==
    IF parts = <<>> THEN <<>>
    ELSE IF Len(parts) = 1 THEN parts[1]
    ELSE Cat(Cat(parts[1], sep), Join(sep, Tail(parts)))

-----------------------------------------------------------------------------
(* Python values as json.loads produces them.                              *)

JNull == [t |-> "null"]
JNum(n) == [t |-> "num", n |-> n, d |-> 1]          \* the int n
JHalf(n) == [t |-> "num", n |-> n, d |-> 2]         \* the float n/2, n odd
JStr(s) == [t |-> "str", s |-> s]                   \* a str that is not JSON text
JEnc(v) == [t |-> "jstr", v |-> v]                  \* a str holding the JSON text of v
JList(items) == [t |-> "list", items |-> items]
JObj(f) == [t |-> "obj", f |-> f]

IsStr(v) == v.t \in {"str", "jstr"}
IsDict(v) == v.t = "obj"
IsInt(v) == v.t = "num" /\ v.d = 1

Ok(v) == [ok |-> TRUE, v |-> v]
Raise(e) == [ok |-> FALSE, exc |-> e]

\* dict.get(key, default)
Get(o, key, default) == IF key \in DOMAIN o.f THEN o.f[key] ELSE default

\* Python ==  against the int 0
EqZero(v) == v.t = "num" /\ v.n = 0

KeyOrder ==
    <<"content", "send_delay_seconds", "replies",
      "summary", "topics", "key_points", "keywords", "impact",
      "intent", "confidence", "query_params", "date">>

\* The JSON text of a value (what the model wrote for json.loads to read).
RECURSIVE Dump(_)
RECURSIVE DumpItems(_)
RECURSIVE DumpKeys(_, _)
Dump(v) ==
    CASE v.t = "null" -> Str("null")
      [] v.t = "num" ->
            IF v.d = 1
            THEN Cat(IF v.n < 0 THEN Str("-") ELSE <<>>,
                     Rep("1", IF v.n < 0 THEN -v.n ELSE v.n))
            ELSE Cat(Cat(IF v.n < 0 THEN Str("-") ELSE <<>>,
                         Rep("1", IF v.n < 0 THEN -v.n ELSE v.n)), Str("/2"))
      [] v.t = "str" -> Cat(Cat(Str("\""), v.s), Str("\""))
      [] v.t = "jstr" -> Cat(Cat(Str("\""), Dump(v.v)), Str("\""))
      [] v.t = "list" -> Cat(Cat(Str("["), DumpItems(v.items)), Str("]"))
      [] v.t = "obj" -> Cat(Cat(Str("{"), DumpKeys(v.f, KeyOrder)), Str("}"))
DumpItems(items) ==
    IF items = <<>> THEN <<>>
    ELSE IF Len(items) = 1 THEN Dump(items[1])
    ELSE Cat(Cat(Dump(items[1]), Str(",")), DumpItems(Tail(items)))
DumpKeys(f, keys) ==
    IF keys = <<>> THEN <<>>
    ELSE IF keys[1] \in DOMAIN f
         THEN Cat(Cat(Cat(Str(keys[1]), Str(":")), Dump(f[keys[1]])),
                  Cat(Str(";"), DumpKeys(f, Tail(keys))))
         ELSE DumpKeys(f, Tail(keys))

\* len(x)
JLen(v) ==
    CASE v.t = "str" -> Ok(TLen(v.s))
      [] v.t = "jstr" -> Ok(TLen(Dump(v.v)))
      [] v.t = "list" -> Ok(Len(v.items))
      [] v.t = "obj" -> Ok(Cardinality(DOMAIN v.f))
      [] OTHER -> Raise("TypeError")

-----------------------------------------------------------------------------
(* A model response is a sequence of segments: code-fence markers, prose   *)
(* without braces, stray braces, and JSON documents.                       *)

FenceJson == [k |-> "fence_json"]       \* three backquotes, then json
Fence == [k |-> "fence"]                \* three backquotes
Prose(s) == [k |-> "text", s |-> s]
LBrace == [k |-> "lbrace"]
RBrace == [k |-> "rbrace"]
Doc(v) == [k |-> "json", v |-> v]

SegText(seg) ==
    CASE seg.k = "fence_json" -> <<Run("BACKQUOTE", 3), Run("json", 1)>>
      [] seg.k = "fence" -> <<Run("BACKQUOTE", 3)>>
      [] seg.k = "text" -> seg.s
      [] seg.k = "lbrace" -> Str("{")
      [] seg.k = "rbrace" -> Str("}")
      [] seg.k = "json" -> Dump(seg.v)

RECURSIVE RawText(_)
RawText(segs) ==
    IF segs = <<>> THEN <<>> ELSE Cat(SegText(segs[1]), RawText(Tail(segs)))

IsBlank(seg) == seg.k = "text" /\ Strip(seg.s) = <<>>


-----------------------------------------------------------------------------
(* service.py: delay normalisation.                                        *)

MIN_DELAY == 0
MAX_DELAY == 10

first_reply == 0
min_delay == 1
max_delay == 5
long_reply_threshold == 200
long_reply_extra_delay == 2

\* normalize_delay(delay): <, > on a non-number raise TypeError
normalize_delay(delay) ==
    IF delay.t # "num" THEN Raise("TypeError")
    ELSE IF delay.n < MIN_DELAY * delay.d THEN Ok(JNum(MIN_DELAY))
    ELSE IF delay.n > MAX_DELAY * delay.d THEN Ok(JNum(MAX_DELAY))
    ELSE Ok(delay)

\* calculate_reply_delay with the long-reply test written >=
calculate_reply_delay_ge(reply_index, reply_length, r) ==
    IF reply_index = 0 THEN JNum(first_reply)
    ELSE normalize_delay(
            JNum(IF reply_length >= long_reply_threshold
                 THEN r + long_reply_extra_delay ELSE r)).v

\* calculate_reply_delay(reply_index, reply_length); r is the value drawn by
\* random.randint(min_delay, max_delay)
calculate_reply_delay(reply_index, reply_length, r) ==
    IF reply_index = 0 THEN JNum(first_reply)
    ELSE normalize_delay(
            JNum(IF reply_length > long_reply_threshold
                 THEN r + long_reply_extra_delay ELSE r)).v

-----------------------------------------------------------------------------
(* service.py: decoding the response.                                      *)

IsFence(seg) == seg.k \in {"fence_json", "fence"}

\* re.sub(r'```json\s*', '') and re.sub(r'```\s*', ''): a fence goes, with
\* the whitespace that follows it
RECURSIVE DropFences(_, _)
DropFences(segs, afterFence) ==
    IF segs = <<>> THEN <<>>
    ELSE IF IsFence(segs[1]) THEN DropFences(Tail(segs), TRUE)
    ELSE IF afterFence /\ segs[1].k = "text"
         THEN IF LStrip(segs[1].s) = <<>>
              THEN DropFences(Tail(segs), TRUE)
              ELSE <<Prose(LStrip(segs[1].s))>> \o DropFences(Tail(segs), FALSE)
    ELSE <<segs[1]>> \o DropFences(Tail(segs), FALSE)

RECURSIVE LStripSegs(_)
LStripSegs(segs) ==
    IF segs # <<>> /\ segs[1].k = "text"
    THEN IF LStrip(segs[1].s) = <<>> THEN LStripSegs(Tail(segs))
         ELSE <<Prose(LStrip(segs[1].s))>> \o Tail(segs)
    ELSE segs

RECURSIVE RStripSegs(_)
RStripSegs(segs) ==
    IF segs # <<>> /\ segs[Len(segs)].k = "text"
    THEN IF RStrip(segs[Len(segs)].s) = <<>>
         THEN RStripSegs(SubSeq(segs, 1, Len(segs) - 1))
         ELSE SubSeq(segs, 1, Len(segs) - 1) \o <<Prose(RStrip(segs[Len(segs)].s))>>
    ELSE segs

clean_markdown_code_block(text) ==
    RStripSegs(LStripSegs(DropFences(text, FALSE)))

\* json.loads(text): a text decodes when it is exactly one JSON document
\* (surrounding whitespace allowed)
json_loads(text) ==
    LET t == RStripSegs(LStripSegs(text))
    IN  IF Len(t) = 1 /\ t[1].k = "json" THEN Ok(t[1].v)
        ELSE Raise("JSONDecodeError")

\* json.loads(s) of a str value
json_loads_str(v) ==
    IF v.t = "jstr" THEN Ok(v.v) ELSE Raise("JSONDecodeError")

\* The segments in which a brace character occurs.  JSON documents of a
\* response are objects (first and last character a brace) or values
\* without braces.
HasOpen(seg) == seg.k = "lbrace" \/ (seg.k = "json" /\ seg.v.t = "obj")
HasClose(seg) == seg.k = "rbrace" \/ (seg.k = "json" /\ seg.v.t = "obj")

\* re.search(r'\{.*\}', text, re.DOTALL): greedy, from the first opening
\* brace to the last closing brace after it; <<>> when there is no match
brace_search(text) ==
    LET opens == {i \in 1..Len(text) : HasOpen(text[i])}
        closes == {i \in 1..Len(text) : HasClose(text[i])}
    IN  IF opens = {} THEN <<>>
        ELSE LET i == CHOOSE x \in opens : \A y \in opens : x <= y
                 after == {j \in closes : j > i \/ (j = i /\ text[i].k = "json")}
             IN  IF after = {} THEN <<>>
                 ELSE LET j == CHOOSE x \in after : \A y \in after : y <= x
                      IN  SubSeq(text, i, j)

RepliesWord ==
    <<Run("r", 1), Run("e", 1), Run("p", 1), Run("l", 1),
      Run("i", 1), Run("e", 1), Run("s", 1)>>

\* "replies" in s, for a str s
HasRepliesWord(s) ==
    \E k \in 0..(Len(s) - Len(RepliesWord)) :
        \A i \in 1..Len(RepliesWord) :
            /\ s[k + i].c = RepliesWord[i].c
            /\ (i \in 2..(Len(RepliesWord) - 1) => s[k + i].n = 1)

RECURSIVE Chars(_)
Chars(t) ==
    IF t = <<>> THEN <<>>
    ELSE IF t[1].n = 1 THEN <<JStr(Str(t[1].c))>> \o Chars(Tail(t))
    ELSE <<JStr(Str(t[1].c))>> \o Chars(<<Run(t[1].c, t[1].n - 1)>> \o Tail(t))

RECURSIVE KeysOf(_, _)
KeysOf(f, keys) ==
    IF keys = <<>> THEN <<>>
    ELSE IF keys[1] \in DOMAIN f
         THEN <<JStr(Str(keys[1]))>> \o KeysOf(f, Tail(keys))
         ELSE KeysOf(f, Tail(keys))

\* for reply in data["replies"]: what the loop iterates over
Iterate(v) ==
    CASE v.t = "list" -> Ok(v.items)
      [] v.t = "str" -> Ok(Chars(v.s))
      [] v.t = "jstr" -> Ok(Chars(Dump(v.v)))
      [] v.t = "obj" -> Ok(KeysOf(v.f, KeyOrder))
      [] OTHER -> Raise("TypeError")

\* "replies" in data
HasReplies(data) ==
    CASE data.t = "obj" -> Ok("replies" \in DOMAIN data.f)
      [] data.t = "list" ->
            Ok(\E i \in 1..Len(data.items) :
                  data.items[i].t = "str" /\ data.items[i].s = RepliesWord)
      [] data.t = "str" -> Ok(HasRepliesWord(data.s))
      [] data.t = "jstr" -> Ok(HasRepliesWord(Dump(data.v)))
      [] OTHER -> Raise("TypeError")

\* parse_nested_replies(data)
RECURSIVE parse_nested_replies(_)
RECURSIVE parse_each(_)
parse_nested_replies(data) ==
    LET has == HasReplies(data)
    IN  IF ~has.ok THEN has
        ELSE IF ~has.v THEN Ok(data)
        ELSE IF data.t # "obj" THEN Raise("TypeError")        \* data["replies"]
        ELSE LET it == Iterate(data.f["replies"])
             IN  IF ~it.ok THEN it
                 ELSE LET parsed == parse_each(it.v)
                      IN  IF ~parsed.ok THEN parsed
                          ELSE Ok(JObj([k \in DOMAIN data.f |->
                                    IF k = "replies" THEN JList(parsed.v)
                                    ELSE data.f[k]]))
parse_each(replies) ==
    IF replies = <<>> THEN Ok(<<>>)
    ELSE LET reply0 == replies[1]
             loaded == IF IsStr(reply0) THEN json_loads_str(reply0) ELSE Ok(reply0)
             reply1 == IF IsStr(reply0)
                       THEN IF loaded.ok THEN loaded.v
                            ELSE JObj([content |-> reply0,
                                       send_delay_seconds |-> JNum(0)])
                       ELSE reply0
             reply2 == IF IsDict(reply1) THEN parse_nested_replies(reply1)
                       ELSE Ok(reply1)
             rest == parse_each(Tail(replies))
         IN  IF ~reply2.ok THEN reply2
             ELSE IF ~rest.ok THEN rest
             ELSE Ok(<<reply2.v>> \o rest.v)

EmptyReplies == JObj([replies |-> JList(<<>>)])

\* parse_nested_json(json_string)
parse_nested_json(json_string) ==
    LET cleaned == clean_markdown_code_block(json_string)
        direct == json_loads(cleaned)
        span == brace_search(cleaned)
        second == json_loads(span)
    IN  IF direct.ok THEN parse_nested_replies(direct.v)
        ELSE IF span # <<>> /\ second.ok THEN parse_nested_replies(second.v)
        ELSE Ok(EmptyReplies)


-----------------------------------------------------------------------------
(* service.py: normalising and returning the replies.                      *)

MkReply(content, delay) == [content |-> content, send_delay_seconds |-> delay]

\* One iteration of the loop of normalize_replies: the replies it appends
\* (none for a reply that is neither a dict nor a str), or the exception
normalize_one(reply, idx, r) ==
    IF IsDict(reply)
    THEN LET content == Get(reply, "content", JStr(<<>>))
             delay == Get(reply, "send_delay_seconds", JNum(0))
         IN  IF EqZero(delay) /\ idx > 0
             THEN LET n == JLen(content)
                  IN  IF ~n.ok THEN n
                      ELSE Ok(<<MkReply(content,
                                        calculate_reply_delay(idx, n.v, r))>>)
             ELSE LET d == normalize_delay(delay)
                  IN  IF ~d.ok THEN d ELSE Ok(<<MkReply(content, d.v)>>)
    ELSE IF IsStr(reply)
    THEN Ok(<<MkReply(reply, calculate_reply_delay(idx, JLen(reply).v, r))>>)
    ELSE Ok(<<>>)

RECURSIVE normalize_from(_, _, _)
normalize_from(replies, i, rnd) ==
    IF i > Len(replies) THEN Ok(<<>>)
    ELSE LET one == normalize_one(replies[i], i - 1, rnd[i])
             rest == normalize_from(replies, i + 1, rnd)
         IN  IF ~one.ok THEN one
             ELSE IF ~rest.ok THEN rest
             ELSE Ok(one.v \o rest.v)

\* normalize_replies(replies); rnd[i] is the random draw for the i-th reply
normalize_replies(replies, rnd) == normalize_from(replies, 1, rnd)

Fallback(raw_response) ==
    <<MkReply(JStr(RawText(raw_response)), JNum(0))>>

\* safe_parse_agent_reply falling back on the cleaned text
safe_parse_agent_reply_cleaned(raw_response, rnd) ==
    LET data == parse_nested_json(raw_response)
        replies == IF data.ok /\ IsDict(data.v)
                   THEN Get(data.v, "replies", JList(<<>>)) ELSE JList(<<>>)
        normalized == normalize_replies(replies.items, rnd)
    IN  IF data.ok /\ IsDict(data.v) /\ replies.items # <<>> /\ normalized.ok
        THEN normalized.v
        ELSE <<MkReply(JStr(RawText(clean_markdown_code_block(raw_response))),
                       JNum(0))>>

\* safe_parse_agent_reply(raw_response): any exception, and an empty
\* replies list, degrade to the single raw reply
safe_parse_agent_reply(raw_response, rnd) ==
    LET data == parse_nested_json(raw_response)
    IN  IF ~data.ok THEN Fallback(raw_response)
        ELSE IF ~IsDict(data.v) THEN Fallback(raw_response)    \* data.get
        ELSE LET replies == Get(data.v, "replies", JList(<<>>))
             IN  IF replies.items = <<>> THEN Fallback(raw_response)
                 ELSE LET normalized == normalize_replies(replies.items, rnd)
                      IN  IF normalized.ok THEN normalized.v
                          ELSE Fallback(raw_response)


-----------------------------------------------------------------------------
(* Model responses the parser is run on.                                   *)

MaxReplies == 2

TextA == Str("A")
TextB == Str("B")
Text200 == Rep("x", long_reply_threshold)
Text201 == Rep("x", long_reply_threshold + 1)

ReplyA3 == JObj([content |-> JStr(TextA), send_delay_seconds |-> JNum(3)])

ReplyElems ==
    { ReplyA3,
      JObj([content |-> JStr(TextA)]),
      JObj([content |-> JStr(TextB), send_delay_seconds |-> JNum(0)]),
      JObj([content |-> JStr(Text200)]),
      JObj([content |-> JStr(Text201), send_delay_seconds |-> JNum(0)]),
      JObj([content |-> JStr(TextA), send_delay_seconds |-> JNum(15)]),
      JObj([content |-> JStr(TextA), send_delay_seconds |-> JNum(-2)]),
      JObj([content |-> JStr(TextA), send_delay_seconds |-> JHalf(5)]),
      JObj([content |-> JStr(TextA), send_delay_seconds |-> JStr(Str("3"))]),
      JObj([content |-> JNum(7)]),
      JObj([send_delay_seconds |-> JNum(3)]),
      JObj([replies |-> JList(<<ReplyA3>>)]),
      JStr(TextA),
      JEnc(ReplyA3),
      JEnc(JStr(Text201)),
      JNum(1) }

ReplyLists ==
    UNION { [1..n -> ReplyElems] : n \in 0..MaxReplies }

SampleDocs ==
    { JObj([replies |-> JList(<<ReplyA3>>)]),
      JObj([replies |-> JList(<<ReplyA3, JObj([content |-> JStr(TextB)])>>)]),
      JObj([content |-> JStr(TextA)]),
      JObj([replies |-> JNum(5)]),
      JObj([replies |-> JStr(Rep("A", MaxReplies))]),
      JList(<<JNum(1)>>),
      JList(<<JStr(RepliesWord)>>),
      JStr(RepliesWord),
      JNum(5) }

NotJson == Str("not json at all")

Wrapped(d) ==
    { <<Doc(d)>>,
      <<FenceJson, Prose(Str("\n")), Doc(d), Prose(Str("\n")), Fence>>,
      <<Fence, Doc(d), Fence>>,
      <<Prose(NotJson), Prose(Str(" ")), Doc(d)>>,
      <<Doc(d), Prose(Str("\n")), Prose(NotJson)>>,
      <<Doc(d), RBrace>>,
      <<LBrace, Doc(d)>>,
      <<Doc(d), Prose(Str(" ")), Doc(d)>> }

RawResponses ==
    { <<Doc(JObj([replies |-> JList(l)]))>> : l \in ReplyLists }
    \cup UNION { Wrapped(d) : d \in SampleDocs }
    \cup { <<Prose(NotJson)>>,
           <<FenceJson, Prose(Str("\n")), Prose(NotJson), Prose(Str("\n")), Fence>>,
           <<LBrace, Prose(NotJson), RBrace>>,
           <<RBrace, Prose(NotJson), LBrace>>,
           <<>> }

\* the fenced single reply with delay 3
FencedA3 ==
    <<FenceJson, Prose(Str("\n")), Doc(JObj([replies |-> JList(<<ReplyA3>>)])),
      Prose(Str("\n")), Fence>>

ParseIdle == p_pc = "idle" /\ p_raw = <<>> /\ p_out = <<>>

ParseStart ==
    /\ p_pc = "input"
    /\ p_raw \in RawResponses
    /\ p_out = <<>>

\* one call of safe_parse_agent_reply(p_raw)
Parse ==
    /\ p_pc = "input"
    /\ \E rnd \in [1..MaxReplies -> min_delay..max_delay] :
          p_out' = safe_parse_agent_reply(p_raw, rnd)
    /\ p_pc' = "done"
    /\ UNCHANGED p_raw


-----------------------------------------------------------------------------
(* Claims about the batch reply parser, checked under SpecParse.           *)

\* C4: for every raw model response the parser returns a list with at
\* least one reply.
C4_AtLeastOneReply ==
    p_pc = "done" => Len(p_out) >= 1

\* C5: in every list the parser returns, the first reply has delay 0,
\* whatever delay the model proposed for it.
C5_FirstReplyDelayZero ==
    (p_pc = "done" /\ Len(p_out) >= 1) => p_out[1].send_delay_seconds = JNum(0)

\* C6: every reply delay the parser returns is an integer in 0..10.
C6_DelayIsIntInRange ==
    p_pc = "done" =>
        \A i \in 1..Len(p_out) :
            /\ IsInt(p_out[i].send_delay_seconds)
            /\ p_out[i].send_delay_seconds.n \in 0..10

\* The replies array as the normalisation step receives it, and the
\* positions of its elements that are replies (objects or strings).
ParsedElems ==
    LET data == parse_nested_json(p_raw)
    IN  IF data.ok /\ IsDict(data.v) /\ "replies" \in DOMAIN data.v.f
        THEN data.v.f["replies"].items ELSE <<>>

RECURSIVE KeptFrom(_, _)
KeptFrom(elems, i) ==
    IF i > Len(elems) THEN <<>>
    ELSE IF elems[i].t \in {"obj", "str", "jstr"} THEN <<i>> \o KeptFrom(elems, i + 1)
    ELSE KeptFrom(elems, i + 1)

ProposedDelay(e) ==
    IF e.t = "obj" /\ "send_delay_seconds" \in DOMAIN e.f
    THEN e.f["send_delay_seconds"] ELSE JNum(0)

ContentLength(e) ==
    IF e.t = "obj"
    THEN IF "content" \in DOMAIN e.f THEN JLen(e.f["content"]).v ELSE 0
    ELSE JLen(e).v

Clamped(d) ==
    IF d.n < 0 THEN JNum(0) ELSE IF d.n > 10 * d.d THEN JNum(10) ELSE d

NotFallback == p_pc = "done" /\ p_out # Fallback(p_raw)

\* C7: an explicit non-zero delay d is output as d clamped to [0, 10] (the
\* fenced single reply with delay 3 yields delay 3); a missing or zero
\* delay on a reply after the first becomes a value in 1..5, plus 2 when
\* the content is longer than 200 characters.
C7_DelayNormalization ==
    /\ (p_pc = "done" /\ p_raw = FencedA3) => p_out = <<MkReply(JStr(TextA), JNum(3))>>
    /\ NotFallback =>
        LET kept == KeptFrom(ParsedElems, 1)
        IN  /\ Len(p_out) = Len(kept)
            /\ \A j \in 1..Len(kept) :
                 LET e == ParsedElems[kept[j]]
                     d == ProposedDelay(e)
                     out == p_out[j].send_delay_seconds
                 IN  /\ (d.t = "num" /\ d.n # 0) => out = Clamped(d)
                     /\ (d.t = "num" /\ d.n = 0 /\ kept[j] > 1) =>
                            \E b \in 1..5 :
                                out = JNum(IF ContentLength(e) > 200 THEN b + 2 ELSE b)

\* C7 witness: a reply after the first without a delay and with more than
\* 200 characters got an auto-computed delay, next to a clamped explicit one.
C7_Witness ==
    /\ NotFallback
    /\ Len(p_out) = 2
    /\ p_out[1].send_delay_seconds = JNum(10)
    /\ p_out[2].content = JStr(Text201)
    /\ p_out[2].send_delay_seconds \in {JNum(3), JNum(7)}

\* The response decodes neither directly (fences stripped) nor from its
\* brace span.
Undecodable(raw) ==
    LET cleaned == clean_markdown_code_block(raw)
    IN  /\ ~json_loads(cleaned).ok
        /\ ~json_loads(brace_search(cleaned)).ok

\* C8: when the response cannot be decoded as JSON directly or from its
\* brace span, the parser returns exactly one reply: the entire raw text,
\* delay 0.
C8_UndecodableFallsBack ==
    (p_pc = "done" /\ Undecodable(p_raw)) =>
        p_out = <<[content |-> JStr(RawText(p_raw)), send_delay_seconds |-> JNum(0)]>>

\* C8 witness: a fenced non-JSON response was parsed.
C8_Witness ==
    /\ p_pc = "done"
    /\ Undecodable(p_raw)
    /\ Len(p_raw) > 1
    /\ p_raw[1] = FenceJson
    /\ Len(p_out) = 1


-----------------------------------------------------------------------------
(* service.py: batch validation.                                           *)

MAX_MESSAGE_COUNT == 20
MAX_MESSAGE_LENGTH == 5000

NoError == [msg |-> "", idx |-> 0]
ErrEmptyList == [msg |-> "message list must not be empty", idx |-> 0]
ErrTooMany == [msg |-> "at most MAX_MESSAGE_COUNT messages per call", idx |-> 0]
ErrAllBlank == [msg |-> "all messages are empty", idx |-> 0]
ErrTooLong(i) == [msg |-> "message longer than MAX_MESSAGE_LENGTH characters", idx |-> i]

\* [msg.strip() for msg in messages if msg.strip()]
RECURSIVE filtered(_)
filtered(messages) ==
    IF messages = <<>> THEN <<>>
    ELSE IF Strip(messages[1]) # <<>>
         THEN <<Strip(messages[1])>> \o filtered(Tail(messages))
         ELSE filtered(Tail(messages))

\* validate_batch_messages measuring the untrimmed messages
validate_batch_messages_raw(messages) ==
    IF messages = <<>> THEN [valid |-> FALSE, error |-> ErrEmptyList]
    ELSE IF Len(messages) > MAX_MESSAGE_COUNT
    THEN [valid |-> FALSE, error |-> ErrTooMany]
    ELSE IF filtered(messages) = <<>> THEN [valid |-> FALSE, error |-> ErrAllBlank]
    ELSE LET long == {i \in 1..Len(messages) : TLen(messages[i]) > MAX_MESSAGE_LENGTH}
         IN  IF long # {}
             THEN [valid |-> FALSE,
                   error |-> ErrTooLong(CHOOSE i \in long : \A j \in long : i <= j)]
             ELSE [valid |-> TRUE, error |-> NoError]

\* validate_batch_messages(messages): (is_valid, error)
validate_batch_messages(messages) ==
    IF messages = <<>> THEN [valid |-> FALSE, error |-> ErrEmptyList]
    ELSE IF Len(messages) > MAX_MESSAGE_COUNT
    THEN [valid |-> FALSE, error |-> ErrTooMany]
    ELSE LET filtered_messages == filtered(messages)
             long == {i \in 1..Len(filtered_messages) :
                        TLen(filtered_messages[i]) > MAX_MESSAGE_LENGTH}
         IN  IF filtered_messages = <<>>
             THEN [valid |-> FALSE, error |-> ErrAllBlank]
             ELSE IF long # {}
             THEN [valid |-> FALSE,
                   error |-> ErrTooLong(CHOOSE i \in long : \A j \in long : i <= j)]
             ELSE [valid |-> TRUE, error |-> NoError]

MaxHead == 2

MsgHi == Str("hi")
MsgBlank == Rep(" ", 2)
MsgAtLimit == Rep("a", MAX_MESSAGE_LENGTH)
MsgOverLimit == Rep("a", MAX_MESSAGE_LENGTH + 1)
MsgPadded == Cat(Cat(Str(" "), MsgAtLimit), Str("\n"))
MsgLongBlank == Rep(" ", MAX_MESSAGE_LENGTH + 1)

MsgSamples ==
    {MsgHi, <<>>, MsgBlank, MsgAtLimit, MsgOverLimit, MsgPadded, MsgLongBlank}

\* a head of sampled messages followed by k copies of one filler message
BatchInputs ==
    { h \o [i \in 1..k |-> f] :
        h \in UNION { [1..n -> MsgSamples] : n \in 0..MaxHead },
        f \in {MsgHi, <<>>},
        k \in 0..(MAX_MESSAGE_COUNT + 1) }

ValidateIdle == v_pc = "idle" /\ v_msgs = <<>> /\ v_out = [valid |-> FALSE, error |-> NoError]

ValidateStart ==
    /\ v_pc = "input"
    /\ v_msgs \in BatchInputs
    /\ v_out = [valid |-> FALSE, error |-> NoError]

\* one call of validate_batch_messages(v_msgs)
Validate ==
    /\ v_pc = "input"
    /\ v_out' = validate_batch_messages(v_msgs)
    /\ v_pc' = "done"
    /\ UNCHANGED v_msgs

-----------------------------------------------------------------------------
(* Claims about batch validation, checked under SpecValidate.              *)

NonBlank(m) == Strip(m) # <<>>

\* C9 as stated: accepted iff 1..20 messages, no message longer than 5000
\* characters, and at least one message non-empty after trimming.
C9_AcceptsIffAsStated ==
    v_pc = "done" =>
        (v_out.valid <=>
            /\ Len(v_msgs) \in 1..20
            /\ \A i \in 1..Len(v_msgs) : TLen(v_msgs[i]) <= 5000
            /\ \E i \in 1..Len(v_msgs) : NonBlank(v_msgs[i]))

\* C9 amended: accepted iff 1..20 messages, at least one non-empty after
\* trimming, and no message longer than 5000 characters after trimming;
\* empty list, more than 20, all blank and over-long are each reported with
\* an error of their own.
C9_AcceptsIffTrimmed ==
    v_pc = "done" =>
        LET count_ok == Len(v_msgs) \in 1..20
            some_text == \E i \in 1..Len(v_msgs) : NonBlank(v_msgs[i])
            too_long == \E i \in 1..Len(v_msgs) : TLen(Strip(v_msgs[i])) > 5000
            kinds == {ErrEmptyList.msg, ErrTooMany.msg, ErrAllBlank.msg, ErrTooLong(1).msg}
        IN  /\ v_out.valid <=> (count_ok /\ some_text /\ ~too_long)
            /\ v_out.valid => v_out.error = NoError
            /\ Cardinality(kinds) = 4 /\ NoError.msg \notin kinds
            /\ Len(v_msgs) = 0 => v_out.error.msg = ErrEmptyList.msg
            /\ Len(v_msgs) > 20 => v_out.error.msg = ErrTooMany.msg
            /\ (count_ok /\ ~some_text) => v_out.error.msg = ErrAllBlank.msg
            /\ (count_ok /\ some_text /\ too_long) => v_out.error.msg = ErrTooLong(1).msg

\* C9 witness: a list was accepted that holds a message of more than 5000
\* characters, which trims to 5000 or to nothing.
C9_Witness ==
    /\ v_pc = "done" /\ v_out.valid
    /\ \E i \in 1..Len(v_msgs) : TLen(v_msgs[i]) > 5000


-----------------------------------------------------------------------------
(* The persisted state (models/agent.py) and the SQLAlchemy session.       *)

Owner == "owner"
Stranger == "stranger"
Users == {Owner, Stranger}
AgentIds == {1, 2}

\* who calls, and for which agent id: the owner and a stranger for the
\* agent, the owner for an id that no agent has
Callers == { <<Owner, 1>>, <<Stranger, 1>>, <<Owner, 2>> }

EmptyDb ==
    [agents |-> <<>>, sessions |-> <<>>, messages |-> <<>>,
     prompt_history |-> <<>>, knowledge_indexes |-> <<>>]

\* SessionLocal = sessionmaker(autocommit=False, autoflush=False, ...)
autoflush == FALSE

\* What a query of the session reads: the rows flushed so far; with
\* autoflush the pending changes would be flushed first.
query_view(flushed, pending) == IF autoflush THEN pending ELSE flushed

\* db.rollback(): the transaction's changes are dropped
rollback_keep(committed, working) == working
rollback(committed, working) == committed

\* the next value of an INTEGER PRIMARY KEY column: largest rowid plus one
RECURSIVE MaxId(_)
MaxId(rows) ==
    IF rows = <<>> THEN 0
    ELSE LET m == MaxId(Tail(rows)) IN IF rows[1].id > m THEN rows[1].id ELSE m

NextId(rows) == MaxId(rows) + 1

\* the agent looked up by its id alone
get_agent_by_id(d, user, agent_id) ==
    LET found == SelectSeq(d.agents, LAMBDA a : a.id = agent_id)
    IN  IF found = <<>> THEN <<>> ELSE <<found[1]>>

\* get_agent_for_user(db, user, agent_id): <<>> for None
get_agent_for_user(d, user, agent_id) ==
    LET found == SelectSeq(d.agents, LAMBDA a : a.id = agent_id /\ a.user_id = user)
    IN  IF found = <<>> THEN <<>> ELSE <<found[1]>>

\* the session row of get_or_create_agent_session when it exists
find_session(d, agent_id) ==
    LET found == SelectSeq(d.sessions, LAMBDA x : x.agent_id = agent_id)
    IN  IF found = <<>> THEN <<>> ELSE <<found[1]>>

\* get_agent_session_messages(db, session_id): rows in created_at order
get_agent_session_messages(d, session_id) ==
    SelectSeq(d.messages, LAMBDA m : m.session_id = session_id)

PromptSep == <<Run("\n", 2)>>

RECURSIVE AddedPrompts(_)
AddedPrompts(histories) ==
    IF histories = <<>> THEN <<>>
    ELSE <<histories[1].added_prompt>> \o AddedPrompts(Tail(histories))

\* calculate_current_prompt(db, agent): d is what the query reads
calculate_current_prompt(d, agent) ==
    LET prompt_histories ==
            SelectSeq(d.prompt_history, LAMBDA h : h.agent_id = agent.id)
    IN  Join(PromptSep, <<agent.initial_prompt>> \o AddedPrompts(prompt_histories))

SetCurrentPrompt(d, agent_id, prompt) ==
    [d EXCEPT !.agents =
        [i \in 1..Len(d.agents) |->
            IF d.agents[i].id = agent_id
            THEN [d.agents[i] EXCEPT !.current_prompt = prompt]
            ELSE d.agents[i]]]

\* the stored current_prompt of the agent, <<>> when there is no such agent
StoredPrompt(d, agent_id) ==
    LET found == SelectSeq(d.agents, LAMBDA a : a.id = agent_id)
    IN  IF found = <<>> THEN <<>> ELSE found[1].current_prompt

\* the record of the latest call: what it was given and what it returned
Call(op, user, agent_id, status, pre) ==
    [op |-> op, user |-> user, agent_id |-> agent_id, status |-> status,
     prompt_before |-> StoredPrompt(pre, agent_id),   \* stored when the call began
     changed |-> FALSE,             \* the call committed a change
     prompt_used |-> <<>>,          \* the current_prompt the call used or returned
     batch_id |-> 0, replies |-> <<>>,
     summary |-> <<>>,              \* <<summary>> or <<>> for None
     deleted_date |-> 0, remaining_count |-> 0, preview |-> <<>>]

-----------------------------------------------------------------------------
(* service.py: create_agent.                                               *)

PromptP == Str("P")
NameN == Str("N")

CreateAgent ==
    /\ db.agents = <<>>
    /\ LET agent == [id |-> NextId(db.agents), user_id |-> Owner, name |-> NameN,
                     initial_prompt |-> PromptP, current_prompt |-> PromptP,
                     last_summarized_at |-> 0]
           session == [id |-> NextId(db.sessions), agent_id |-> agent.id]
       IN  /\ db' = [db EXCEPT !.agents = Append(@, agent),
                               !.sessions = Append(@, session)]
           /\ last' = [Call("create_agent", Owner, agent.id, "ok", db) EXCEPT
                          !.changed = TRUE]
    /\ UNCHANGED <<today, parse_vars, validate_vars, call_vars>>

-----------------------------------------------------------------------------
(* service.py: delete_latest_prompt_summary (undo-last).                   *)

RECURSIVE Take(_, _)
Take(t, n) ==
    IF t = <<>> \/ n = 0 THEN <<>>
    ELSE IF t[1].n <= n THEN <<t[1]>> \o Take(Tail(t), n - t[1].n)
    ELSE <<Run(t[1].c, n)>>

\* current_prompt[:100] + "..." if len(current_prompt) > 100 else current_prompt
Preview(prompt) ==
    IF TLen(prompt) > 100 THEN Cat(Take(prompt, 100), Rep(".", 3)) ELSE prompt

\* the first of the agent's entries, in place of the last
oldest_first(mine) == mine[1]

\* order_by(created_at.desc()).first(): the agent's most recently created entry
latest_first(mine) == mine[Len(mine)]

\* the entry deleted and its knowledge index left behind
delete_history_only(d, latest_history) ==
    [d EXCEPT !.prompt_history = SelectSeq(@, LAMBDA h : h.id # latest_history.id)]

\* db.delete(latest_history.knowledge_index), db.delete(latest_history): pending
delete_history(d, latest_history) ==
    [d EXCEPT
        !.knowledge_indexes =
            SelectSeq(@, LAMBDA k : k.prompt_history_id # latest_history.id),
        !.prompt_history = SelectSeq(@, LAMBDA h : h.id # latest_history.id)]

\* delete_latest_prompt_summary(db, user, agent_id): the new committed
\* database and the returned tuple
delete_latest_prompt_summary(d, user, agent_id) ==
    LET found == get_agent_for_user(d, user, agent_id)
    IN  IF found = <<>>
        THEN [db |-> d, status |-> "not_found", deleted_date |-> 0,
              remaining_count |-> 0, preview |-> <<>>]
        ELSE
        LET agent == found[1]
            mine == SelectSeq(d.prompt_history, LAMBDA h : h.agent_id = agent.id)
        IN  IF mine = <<>>
            THEN [db |-> d, status |-> "not_found", deleted_date |-> 0,
                  remaining_count |-> 0, preview |-> <<>>]
            ELSE
            LET latest_history == latest_first(mine)
                pending == delete_history(d, latest_history)
                seen == query_view(d, pending)
                current_prompt == calculate_current_prompt(seen, agent)
                remaining_count ==
                    Len(SelectSeq(seen.prompt_history, LAMBDA h : h.agent_id = agent.id))
            IN  [db |-> SetCurrentPrompt(pending, agent.id, current_prompt),
                 status |-> "ok",
                 deleted_date |-> latest_history.summary_date,
                 remaining_count |-> remaining_count,
                 preview |-> Preview(current_prompt)]

DeleteLatest(user, agent_id) ==
    /\ \E r \in { delete_latest_prompt_summary(db, user, agent_id) } :
           /\ db' = r.db
           /\ last' = [Call("delete_latest", user, agent_id, r.status, db) EXCEPT
                          !.changed = (r.db # db),
                          !.deleted_date = r.deleted_date,
                          !.remaining_count = r.remaining_count,
                          !.preview = r.preview]
    /\ UNCHANGED <<today, parse_vars, validate_vars, call_vars>>


-----------------------------------------------------------------------------
(* service.py: clear_chat_and_summarize (consolidation).                   *)

MaxHistory == 2

\* bool(x)
Truthy(v) ==
    CASE v.t = "null" -> FALSE
      [] v.t = "num" -> v.n # 0
      [] v.t = "str" -> v.s # <<>>
      [] v.t = "jstr" -> TRUE
      [] v.t = "list" -> v.items # <<>>
      [] v.t = "obj" -> DOMAIN v.f # {}

\* f"{x}"
Format(v) ==
    CASE v.t = "str" -> v.s
      [] v.t = "jstr" -> Dump(v.v)
      [] v.t = "null" -> Str("None")
      [] OTHER -> Dump(v)

ImpactGlue == Str(" this experience made me: ")

\* step 7 of clear_chat_and_summarize, the except branch: the raw text
\* stands for the summary
summary_degraded(raw_summary) ==
    [added_prompt |-> JStr(RawText(raw_summary)),
     summary_content |-> JStr(RawText(raw_summary)),
     topics |-> JList(<<>>), key_points |-> JList(<<>>), keywords |-> JList(<<>>)]

\* step 7, lines 1133-1137: the braces' span when there is one, else the text
summary_loads(summary_text, json_match) ==
    IF json_match # <<>> THEN json_loads(json_match) ELSE json_loads(summary_text)

\* len(x) is defined
Sized(v) == v.t \in {"str", "jstr", "list", "obj"}

\* step 7, lines 1139-1151: the fields of the decoded summary
summary_fields(summary_data, summary_content, impact, degraded) ==
    IF Truthy(impact) /\ ~IsStr(impact) THEN degraded     \* impact.strip()
    ELSE IF \/ ~Sized(Get(summary_data, "topics", JList(<<>>)))     \* len(topics)
            \/ ~Sized(Get(summary_data, "key_points", JList(<<>>)))
            \/ ~Sized(Get(summary_data, "keywords", JList(<<>>)))
    THEN degraded
    ELSE [added_prompt |->
             IF Truthy(impact) /\ impact.t = "str" /\ Strip(impact.s) # <<>>
             THEN JStr(Cat(Cat(Format(summary_content), ImpactGlue), Format(impact)))
             ELSE IF Truthy(impact) /\ impact.t = "jstr"
             THEN JStr(Cat(Cat(Format(summary_content), ImpactGlue), Dump(impact.v)))
             ELSE summary_content,
          summary_content |-> summary_content,
          topics |-> Get(summary_data, "topics", JList(<<>>)),
          key_points |-> Get(summary_data, "key_points", JList(<<>>)),
          keywords |-> Get(summary_data, "keywords", JList(<<>>))]

summary_decoded(loaded, degraded) ==
    IF ~loaded.ok \/ ~IsDict(loaded.v) THEN degraded
    ELSE summary_fields(loaded.v, Get(loaded.v, "summary", JStr(<<>>)),
                        Get(loaded.v, "impact", JStr(<<>>)), degraded)

summary_text_of(summary_text, degraded) ==
    summary_decoded(summary_loads(summary_text, brace_search(summary_text)), degraded)

\* step 7 of clear_chat_and_summarize: the summary fields taken from the
\* model's response; any exception degrades to the raw text
parse_summary(raw_summary) ==
    summary_text_of(clean_markdown_code_block(raw_summary), summary_degraded(raw_summary))

NoneIfEmpty(v) == IF Truthy(v) THEN v ELSE JNull

ClearResult(d, status, summary) == [db |-> d, status |-> status, summary |-> summary]

\* get_or_create_agent_session(db, agent_id): a missing session row is
\* added and committed
get_or_create_agent_session(d, agent_id) ==
    IF find_session(d, agent_id) = <<>>
    THEN [d EXCEPT !.sessions =
            Append(@, [id |-> NextId(d.sessions), agent_id |-> agent_id])]
    ELSE d

\* steps 9 to 13: the records written, the prompt recomputed, the commit
clear_commit(d1, agent, session_id, all_messages, parsed, prompt_history, fail, day) ==
    LET \* db.add(prompt_history); db.flush()
        flushed == [d1 EXCEPT !.prompt_history = Append(@, prompt_history)]
        knowledge_index ==
            [id |-> NextId(d1.knowledge_indexes), agent_id |-> agent.id,
             prompt_history_id |-> prompt_history.id,
             summary_date |-> day,
             summary_summary |-> parsed.summary_content,
             topics |-> NoneIfEmpty(parsed.topics),
             key_points |-> NoneIfEmpty(parsed.key_points),
             keywords |-> NoneIfEmpty(parsed.keywords),
             message_count |-> Len(all_messages),
             user_message_count |->
                Len(SelectSeq(all_messages, LAMBDA m : m.role = "user"))]
        \* db.add(knowledge_index), db.delete(msg) for the messages read: pending
        pending ==
            [d1 EXCEPT
                !.prompt_history = Append(@, prompt_history),
                !.knowledge_indexes = Append(@, knowledge_index),
                !.messages = SelectSeq(@, LAMBDA m :
                                \A i \in 1..Len(all_messages) : all_messages[i].id # m.id)]
        current_prompt == calculate_current_prompt(query_view(flushed, pending), agent)
        working ==
            [pending EXCEPT !.agents =
                [i \in 1..Len(@) |->
                    IF @[i].id = agent.id
                    THEN [@[i] EXCEPT !.current_prompt = current_prompt,
                                      !.last_summarized_at = day]
                    ELSE @[i]]]
    IN  IF fail = "commit" \/ parsed.summary_content.t = "null"     \* NOT NULL
        THEN ClearResult(rollback(d1, working), "error", <<>>)
        ELSE ClearResult(working, "ok", <<parsed.summary_content>>)

\* the delta record taking the agent row's stored current_prompt as the
\* prompt before the change
clear_parsed_stored(d1, agent, session_id, all_messages, parsed, prompt_before, fail, day) ==
    IF ~IsStr(parsed.added_prompt)
    THEN ClearResult(rollback(d1, d1), "error", <<>>)
    ELSE clear_commit(d1, agent, session_id, all_messages, parsed,
            [id |-> NextId(d1.prompt_history), agent_id |-> agent.id,
             added_prompt |-> Format(parsed.added_prompt),
             full_prompt_before |-> agent.current_prompt,
             full_prompt_after |->
                Cat(Cat(agent.current_prompt, PromptSep), Format(parsed.added_prompt)),
             summary_date |-> day],
            fail, day)

\* step 8: the delta record, from the prompt as recomputed before the change
clear_parsed(d1, agent, session_id, all_messages, parsed, prompt_before, fail, day) ==
    IF ~IsStr(parsed.added_prompt)          \* str + None raises TypeError
    THEN ClearResult(rollback(d1, d1), "error", <<>>)
    ELSE clear_commit(d1, agent, session_id, all_messages, parsed,
            [id |-> NextId(d1.prompt_history), agent_id |-> agent.id,
             added_prompt |-> Format(parsed.added_prompt),
             full_prompt_before |-> prompt_before,
             full_prompt_after |->
                Cat(Cat(prompt_before, PromptSep), Format(parsed.added_prompt)),
             summary_date |-> day],
            fail, day)

\* clear_session asking the model before it looks at the messages
clear_session_asks(d1, agent, session_id, all_messages, fail, raw_summary, day) ==
    IF fail = "model" THEN ClearResult(rollback(d1, d1), "error", <<>>)
    ELSE IF all_messages = <<>> THEN ClearResult(d1, "noop", <<>>)
    ELSE clear_parsed(d1, agent, session_id, all_messages, parse_summary(raw_summary),
                      calculate_current_prompt(d1, agent), fail, day)

\* steps 2 to 7: the session's messages and the model's summary of them
clear_session(d1, agent, session_id, all_messages, fail, raw_summary, day) ==
    IF all_messages = <<>> THEN ClearResult(d1, "noop", <<>>)
    ELSE IF fail = "model" THEN ClearResult(rollback(d1, d1), "error", <<>>)
    ELSE clear_parsed(d1, agent, session_id, all_messages, parse_summary(raw_summary),
                      calculate_current_prompt(d1, agent), fail, day)

clear_found(d1, agent, session_id, fail, raw_summary, day) ==
    clear_session(d1, agent, session_id, get_agent_session_messages(d1, session_id),
                  fail, raw_summary, day)

\* clear_chat_and_summarize(db, user, agent_id).  fail is where the
\* environment fails the call ("model", "commit" or "none"), raw_summary the
\* model's response.
clear_chat_and_summarize(d, user, agent_id, fail, raw_summary, day) ==
    LET found == get_agent_for_user(d, user, agent_id)
    IN  IF found = <<>> THEN ClearResult(d, "not_found", <<>>)
        ELSE clear_found(get_or_create_agent_session(d, agent_id), found[1],
                         find_session(get_or_create_agent_session(d, agent_id),
                                      agent_id)[1].id,
                         fail, raw_summary, day)


-----------------------------------------------------------------------------
(* intent_detector.py: the classification of a batch of user messages.     *)

NORMAL_CHAT == "NORMAL_CHAT"
KNOWLEDGE_QUERY == "KNOWLEDGE_QUERY"

\* str.lower() of a symbol: the symbols that have an upper-case form
LowerChar(c) ==
    CASE c = "F" -> "f"
      [] c = "K" -> "k"
      [] c = "Yesterday" -> "yesterday"
      [] OTHER -> c

RECURSIVE Lower(_)
Lower(t) ==
    IF t = <<>> THEN <<>>
    ELSE Cat(<<Run(LowerChar(t[1].c), t[1].n)>>, Lower(Tail(t)))

\* any(word in text for word in words): a word is one symbol of the text
HasAny(text, words) == \E i \in 1..Len(text) : text[i].c \in words

\* s[:-1]
DropLast(t) ==
    IF t = <<>> THEN <<>>
    ELSE IF t[Len(t)].n = 1 THEN SubSeq(t, 1, Len(t) - 1)
    ELSE SubSeq(t, 1, Len(t) - 1) \o <<Run(t[Len(t)].c, t[Len(t)].n - 1)>>

\* text[:-1] on segments: a JSON document that loses its last character is
\* no JSON document any more, except an int of several digits
DropLastSeg(segs) ==
    IF segs = <<>> THEN <<>>
    ELSE LET seg == segs[Len(segs)]
             rest == SubSeq(segs, 1, Len(segs) - 1)
         IN  IF seg.k = "json" /\ IsInt(seg.v) /\ seg.v.n >= 2
             THEN rest \o <<Doc(JNum(seg.v.n - 1))>>
             ELSE IF DropLast(SegText(seg)) = <<>> THEN rest
             ELSE rest \o <<Prose(DropLast(SegText(seg)))>>

\* response_text[json_start:json_end].strip(), json_start just after the
\* fence at position i, json_end = find of the next three backquotes, which
\* is -1 when there are none
after_fence(text, i) ==
    LET closes == { j \in (i + 1)..Len(text) : IsFence(text[j]) }
    IN  RStripSegs(LStripSegs(
            IF closes = {} THEN DropLastSeg(SubSeq(text, i + 1, Len(text)))
            ELSE SubSeq(text, i + 1, (CHOOSE j \in closes : \A k \in closes : j <= k) - 1)))

\* the position of the first segment of one of the kinds
FirstOf(text, kinds) ==
    CHOOSE i \in 1..Len(text) :
        text[i].k \in kinds /\ \A j \in 1..(i - 1) : text[j].k \notin kinds

\* parse_intent_json, lines 122-129: the JSON part of a fenced response
extract_fenced(text) ==
    IF \E i \in 1..Len(text) : text[i].k = "fence_json"
    THEN after_fence(text, FirstOf(text, {"fence_json"}))
    ELSE IF \E i \in 1..Len(text) : text[i].k = "fence"
    THEN after_fence(text, FirstOf(text, {"fence"}))
    ELSE text

\* fallback_keyword_match's knowledge_keywords, transliterated
knowledge_keywords ==
    {"zuotian", "qiantian", "shangzhou", "zhiqian", "yiqian", "guoqu",
     "fasheng le shenme", "taolun le shenme", "liao le shenme", "jide",
     "chaxun", "chazhao", "sousuo"}

\* the texts that match r'(\d{4})-(\d{1,2})-(\d{1,2})'
DateTexts == {"2024-01-05"}

\* extract_date_keyword(text)
extract_date_keyword(text) ==
    IF HasAny(Lower(text), {"zuotian", "yesterday"}) THEN JStr(Str("yesterday"))
    ELSE IF HasAny(Lower(text), {"qiantian"}) THEN JStr(Str("day_before_yesterday"))
    ELSE IF HasAny(Lower(text), {"shangzhou", "last week"}) THEN JStr(Str("last_week"))
    ELSE IF HasAny(Lower(text), {"zuijin 7 tian", "zuijin yi zhou"})
    THEN JStr(Str("last_7_days"))
    ELSE IF HasAny(Lower(text), {"zuijin 30 tian", "zuijin yi yue"})
    THEN JStr(Str("last_30_days"))
    ELSE IF HasAny(text, DateTexts)
    THEN JStr(Str((CHOOSE i \in 1..Len(text) :
                      text[i].c \in DateTexts
                      /\ \A j \in 1..(i - 1) : text[j].c \notin DateTexts).c))
    ELSE JNull

\* the dict detect_agent_intent returns, without reason and raw_response
IntentResult(intent, confidence, query_params) ==
    [intent |-> intent, confidence |-> confidence, query_params |-> query_params]

\* a confidence that is n / d
Confidence(n, d) == [t |-> "num", n |-> n, d |-> d]

\* fallback_keyword_match(response_text)
fallback_keyword_match(response_text) ==
    IF HasAny(Lower(RawText(response_text)), knowledge_keywords)
    THEN IntentResult(JStr(Str(KNOWLEDGE_QUERY)), Confidence(3, 5),
                      JObj([date |-> extract_date_keyword(Lower(RawText(response_text))),
                            keywords |-> JList(<<>>)]))
    ELSE IntentResult(JStr(Str(NORMAL_CHAT)), Confidence(1, 2), JNull)

\* float(x)
py_float(x) ==
    CASE x.t = "num" -> Ok(x)
      [] x.t = "jstr" -> IF x.v.t = "num" THEN Ok(x.v) ELSE Raise("ValueError")
      [] x.t = "str" -> Raise("ValueError")
      [] OTHER -> Raise("TypeError")

\* parse_intent_json, lines 134-146: the fields read from the decoded object
intent_fields(intent_result, confidence) ==
    IF ~IsDict(intent_result) THEN Raise("AttributeError")
    ELSE IF ~confidence.ok THEN Raise(confidence.exc)
    ELSE Ok(IntentResult(
            Get(intent_result, "intent", JStr(Str(NORMAL_CHAT))),
            confidence.v,
            IF Get(intent_result, "intent", JStr(Str(NORMAL_CHAT)))
                   = JStr(Str(KNOWLEDGE_QUERY))
            THEN Get(intent_result, "query_params", JNull) ELSE JNull))

parse_intent_text(text, loaded) ==
    IF ~loaded.ok THEN Ok(fallback_keyword_match(text))
    ELSE intent_fields(loaded.v,
                       IF IsDict(loaded.v)
                       THEN py_float(Get(loaded.v, "confidence", JNum(0)))
                       ELSE Raise("AttributeError"))

\* parse_intent_json(response_text)
parse_intent_json(response_text) ==
    parse_intent_text(extract_fenced(response_text),
                      json_loads(extract_fenced(response_text)))

\* what detect_agent_intent returns when anything in it raised
DegradedIntent == IntentResult(JStr(Str(NORMAL_CHAT)), JNum(0), JNull)

\* the message content of a completion: None, or text
NoContent == [t |-> "null"]
Content(segs) == [t |-> "text", segs |-> segs]

\* detect_agent_intent without its try/except
detect_agent_intent_uncaught(completion) ==
    IF ~completion.ok THEN Raise(completion.exc)
    ELSE IF completion.v.t = "null" THEN Raise("AttributeError")
    ELSE parse_intent_json(RStripSegs(LStripSegs(completion.v.segs)))

\* detect_agent_intent(user_message).  completion is what
\* client.chat.completions.create gave: Raise(e), or Ok(content) with the
\* content of the first choice's message.
detect_agent_intent(completion) ==
    IF ~completion.ok THEN Ok(DegradedIntent)
    ELSE IF completion.v.t = "null" THEN Ok(DegradedIntent)  \* None.strip()
    ELSE IF parse_intent_json(RStripSegs(LStripSegs(completion.v.segs))).ok
    THEN parse_intent_json(RStripSegs(LStripSegs(completion.v.segs)))
    ELSE Ok(DegradedIntent)

\* the JSON values the classifier may answer with
QueryParams ==
    JObj([date |-> JStr(Str("yesterday")), keywords |-> JList(<<JStr(Str("f"))>>)])

IntentDocs ==
    { JObj([intent |-> JStr(Str(KNOWLEDGE_QUERY)), confidence |-> JNum(1),
            query_params |-> QueryParams]),
      JObj([intent |-> JStr(Str(KNOWLEDGE_QUERY)), confidence |-> JHalf(1)]),
      JObj([intent |-> JStr(Str(KNOWLEDGE_QUERY)), query_params |-> JList(<<>>)]),
      JObj([intent |-> JStr(Str(KNOWLEDGE_QUERY)),
            query_params |-> JList(<<JStr(Str("f"))>>)]),
      JObj([intent |-> JStr(Str(KNOWLEDGE_QUERY)), query_params |-> JStr(Str("f"))]),
      JObj([intent |-> JStr(Str(KNOWLEDGE_QUERY)), confidence |-> JStr(Str("high"))]),
      JObj([intent |-> JStr(Str(KNOWLEDGE_QUERY)), confidence |-> JNull]),
      JObj([intent |-> JStr(Str(NORMAL_CHAT)), confidence |-> JNum(1),
            query_params |-> QueryParams]),
      JObj([intent |-> JStr(Str("OTHER")), confidence |-> JNum(1),
            query_params |-> QueryParams]),
      JObj([intent |-> JNull, confidence |-> JNum(1)]),
      JObj([confidence |-> JEnc(JNum(1))]),
      JList(<<>>), JNum(12), JStr(Str("zuotian")), JNull }

\* the responses of the classifier: the document alone, fenced, in a fence
\* that is not closed, after prose, and prose alone
IntentResponses ==
    { <<Doc(v)>> : v \in IntentDocs }
    \cup { <<FenceJson, Prose(Str("\n")), Doc(v), Prose(Str("\n")), Fence>> :
             v \in IntentDocs }
    \cup { <<Fence, Doc(v), Fence, Prose(Str("jide"))>> : v \in IntentDocs }
    \cup { <<Prose(Str(" ")), FenceJson, Doc(v)>> : v \in IntentDocs }
    \cup { <<Prose(w), Doc(v)>> :
             w \in {Str("Yesterday"), Str("2024-01-05"), Str("ok")}, v \in IntentDocs }
    \cup { <<Prose(Cat(Str("chaxun"), Str("shangzhou")))>>, <<Prose(Str("ok"))>>, <<>> }

IntentCompletions ==
    { Raise("APIError"), Ok(NoContent) } \cup { Ok(Content(r)) : r \in IntentResponses }

IntentStart ==
    /\ c_pc = "input"
    /\ c_in \in IntentCompletions
    /\ c_out = <<>>

\* one call of detect_agent_intent
DetectIntent ==
    /\ c_pc = "input"
    /\ c_out' = detect_agent_intent(c_in)
    /\ c_pc' = "done"
    /\ UNCHANGED c_in

-----------------------------------------------------------------------------
(* knowledge_index.py: the search of an agent's knowledge index.           *)

\* a in b, for two str
IsSubstring(a, b) ==
    \/ a = <<>>
    \/ \E k \in 1..(Len(b) - Len(a) + 1) :
          \A i \in 1..Len(a) :
              /\ b[k + i - 1].c = a[i].c
              /\ IF i = 1 \/ i = Len(a) THEN b[k + i - 1].n >= a[i].n
                 ELSE b[k + i - 1].n = a[i].n

\* the elements of a truthy column value, none for a falsy one
ItemsOf(v) == IF Truthy(v) /\ Iterate(v).ok THEN Iterate(v).v ELSE <<>>

\* calculate_match_score counting each keyword once for the topics and once
\* for the indexed keywords, however many of them it matches
calculate_match_score_per_keyword(index, keywords) ==
    Cardinality({ j \in 1..Len(keywords) :
                    IsSubstring(Lower(keywords[j].s), Lower(index.summary_summary.s)) })
    + 2 * Cardinality({ j \in 1..Len(keywords) :
                    \E i \in 1..Len(ItemsOf(index.topics)) :
                        IsSubstring(Lower(keywords[j].s),
                                    Lower(Format(ItemsOf(index.topics)[i]))) })
    + 3 * Cardinality({ j \in 1..Len(keywords) :
                    \E i \in 1..Len(ItemsOf(index.keywords)) :
                        Lower(keywords[j].s) = Lower(Format(ItemsOf(index.keywords)[i])) })

\* calculate_match_score(index, keywords), keywords a list of str
calculate_match_score(index, keywords) ==
    Cardinality({ j \in 1..Len(keywords) :
                    IsSubstring(Lower(keywords[j].s), Lower(index.summary_summary.s)) })
    + 2 * Cardinality({ p \in (1..Len(ItemsOf(index.topics))) \X (1..Len(keywords)) :
                          IsSubstring(Lower(keywords[p[2]].s),
                                      Lower(Format(ItemsOf(index.topics)[p[1]]))) })
    + 3 * Cardinality({ p \in (1..Len(ItemsOf(index.keywords))) \X (1..Len(keywords)) :
                          Lower(keywords[p[2]].s)
                              = Lower(Format(ItemsOf(index.keywords)[p[1]])) })

\* scored_results.sort(key=score, reverse=True): stable, so the entries of
\* one score keep their order; s is the highest score left to place
RECURSIVE SortedFrom(_, _, _)
SortedFrom(results, keywords, s) ==
    IF s = 0 THEN <<>>
    ELSE SelectSeq(results, LAMBDA index : calculate_match_score(index, keywords) = s)
         \o SortedFrom(results, keywords, s - 1)

\* the highest score an entry can get
TopScore(results, keywords) ==
    IF results = <<>> THEN 0
    ELSE CHOOSE s \in { calculate_match_score(results[i], keywords) : i \in 1..Len(results) } :
            \A i \in 1..Len(results) : calculate_match_score(results[i], keywords) <= s

\* _filter_and_score_by_keywords(results, keywords): an exception when a
\* keyword or a summary is no str (.lower())
filter_and_score_by_keywords(results, keywords) ==
    IF \/ \E j \in 1..Len(keywords) : keywords[j].t # "str"
       \/ \E i \in 1..Len(results) : results[i].summary_summary.t # "str"
    THEN Raise("AttributeError")
    ELSE Ok(SortedFrom(results, keywords, TopScore(results, keywords)))

\* the orders in which the query of search_agent_knowledge may return the
\* agent's rows: order_by(summary_date.desc()), rows of one date in any order
query_orders(rows, agent_id) ==
    LET mine == { i \in 1..Len(rows) : rows[i].agent_id = agent_id }
    IN  { [k \in 1..Cardinality(mine) |-> rows[f[k]]] :
            f \in { g \in [1..Cardinality(mine) -> mine] :
                      /\ \A a, b \in 1..Cardinality(mine) : a # b => g[a] # g[b]
                      /\ \A a, b \in 1..Cardinality(mine) :
                            a < b => rows[g[a]].summary_date >= rows[g[b]].summary_date } }

\* results[:limit]
FirstN(results, limit) ==
    SubSeq(results, 1, IF Len(results) < limit THEN Len(results) ELSE limit)

search_scored(results, keywords, limit) ==
    IF Truthy(keywords) /\ results # <<>>
    THEN IF ~Iterate(keywords).ok THEN <<>>     \* except Exception: return []
         ELSE IF ~filter_and_score_by_keywords(results, Iterate(keywords).v).ok THEN <<>>
         ELSE FirstN(filter_and_score_by_keywords(results, Iterate(keywords).v).v, limit)
    ELSE FirstN(results, limit)

\* search_agent_knowledge(db, agent_id, dates, keywords, limit).  ordered is
\* what the query without the date filter returns, fail whether the
\* database fails the query; keywords is None or the value handed over.
search_agent_knowledge(ordered, dates, keywords, limit, fail) ==
    IF fail THEN <<>>
    ELSE search_scored(IF dates # <<>>
                       THEN SelectSeq(ordered, LAMBDA index :
                               \E i \in 1..Len(dates) : dates[i] = index.summary_date)
                       ELSE ordered,
                       keywords, limit)

\* the rows of the searches tried
MaxEntries == 2

RowShapes ==
    { [agent_id |-> 1, summary_summary |-> JStr(Str("f")), topics |-> JNull,
       keywords |-> JNull],
      [agent_id |-> 1, summary_summary |-> JStr(Str("x")), topics |-> JNull,
       keywords |-> JList(<<JStr(Str("F"))>>)],
      [agent_id |-> 1, summary_summary |-> JStr(Str("x")),
       topics |-> JList(<<JStr(Str("f")), JStr(<<Run("x", 1), Run("f", 2)>>)>>),
       keywords |-> JNull],
      [agent_id |-> 1, summary_summary |-> JStr(Str("k")), topics |-> JNull,
       keywords |-> JList(<<JStr(Str("k"))>>)],
      [agent_id |-> 2, summary_summary |-> JStr(Str("f")), topics |-> JNull,
       keywords |-> JList(<<JStr(Str("f"))>>)] }

SearchDays == {1, 2}

SearchRows ==
    UNION { [1..n -> { [summary_date |-> d, shape |-> r] : d \in SearchDays, r \in RowShapes }] :
              n \in 0..MaxEntries }

\* the table: each row with its id and its columns
TableOf(drawn) ==
    [i \in 1..Len(drawn) |->
        [id |-> i, agent_id |-> drawn[i].shape.agent_id,
         summary_date |-> drawn[i].summary_date,
         summary_summary |-> drawn[i].shape.summary_summary,
         topics |-> drawn[i].shape.topics, keywords |-> drawn[i].shape.keywords]]

SearchKeywords ==
    { JList(<<JStr(Str("f"))>>), JList(<<JStr(Str("F")), JStr(Str("x"))>>),
      JList(<<JNum(1)>>), JNull }

SearchInputs ==
    { [rows |-> TableOf(drawn), dates |-> d, keywords |-> k, limit |-> l] :
        drawn \in SearchRows, d \in {<<>>, <<2>>}, k \in SearchKeywords, l \in {1, 5} }

SearchStart ==
    /\ c_pc = "input"
    /\ c_in \in SearchInputs
    /\ c_out = <<>>

\* one call of search_agent_knowledge for agent 1
Search ==
    /\ c_pc = "input"
    /\ \E ordered \in query_orders(c_in.rows, 1) :
          c_out' = search_agent_knowledge(ordered, c_in.dates, c_in.keywords,
                                          c_in.limit, FALSE)
    /\ c_pc' = "done"
    /\ UNCHANGED c_in

-----------------------------------------------------------------------------
(* service.py: send_batch_messages_to_agent.                               *)

MaxLive == 1

\* str(uuid.uuid4()): an id no message carries yet
FreshBatchId(d) ==
    CHOOSE b \in 1..(Len(d.messages) + 1) :
        \A i \in 1..Len(d.messages) : d.messages[i].batch_id # b

UserRows(d, session_id, batch_id, msgs) ==
    [i \in 1..Len(msgs) |->
        [id |-> MaxId(d.messages) + i, session_id |-> session_id, role |-> "user",
         content |-> JStr(msgs[i]), batch_id |-> batch_id, batch_index |-> i - 1,
         send_delay_seconds |-> JNull]]

\* ReplyRows numbering the replies of a batch from one
ReplyRowsFromOne(d, session_id, batch_id, replies) ==
    [i \in 1..Len(replies) |->
        [id |-> MaxId(d.messages) + i, session_id |-> session_id, role |-> "assistant",
         content |-> replies[i].content, batch_id |-> batch_id, batch_index |-> i,
         send_delay_seconds |-> replies[i].send_delay_seconds]]

ReplyRows(d, session_id, batch_id, replies) ==
    [i \in 1..Len(replies) |->
        [id |-> MaxId(d.messages) + i, session_id |-> session_id, role |-> "assistant",
         content |-> replies[i].content, batch_id |-> batch_id, batch_index |-> i - 1,
         send_delay_seconds |-> replies[i].send_delay_seconds]]

BatchResult(d, status, error, prompt, batch_id, replies) ==
    [db |-> d, status |-> status, error |-> error, prompt_used |-> prompt,
     batch_id |-> batch_id, replies |-> replies]

ErrAgentNotFound == [msg |-> "Agent not found or does not belong to user", idx |-> 0]

\* lines 984-1000: the replies stored, the commit
batch_store(committed, w2, session_id, batch_id, current_prompt, ai_replies, fail) ==
    IF fail = "commit" \/ \E i \in 1..Len(ai_replies) : ai_replies[i].content.t = "null"
    THEN BatchResult(rollback(committed, w2), "error", NoError,
                     current_prompt, batch_id, <<>>)
    ELSE BatchResult([w2 EXCEPT !.messages =
                         @ \o ReplyRows(w2, session_id, batch_id, ai_replies)],
                     "ok", NoError, current_prompt, batch_id, ai_replies)

\* date.fromisoformat(text), in days
DateOfText == [text \in DateTexts |-> 1]

\* parse_date_from_keyword(date_keyword): re.match on a value that is no str
\* raises inside the try, and the except returns []
parse_date_from_keyword(date_keyword, day) ==
    IF date_keyword.t # "str" THEN <<>>
    ELSE CASE date_keyword.s = Str("yesterday") -> <<day - 1>>
           [] date_keyword.s = Str("day_before_yesterday") -> <<day - 2>>
           [] date_keyword.s = Str("last_week") ->
                [i \in 1..7 |-> day - (day % 7) - 7 + (i - 1)]
           [] date_keyword.s = Str("last_7_days") -> [i \in 1..7 |-> day - (i - 1)]
           [] date_keyword.s = Str("last_30_days") -> [i \in 1..30 |-> day - (i - 1)]
           [] Len(date_keyword.s) = 1 /\ date_keyword.s[1].c \in DateTexts
                /\ date_keyword.s[1].n = 1 ->
                <<DateOfText[date_keyword.s[1].c]>>
           [] OTHER -> <<>>

\* lines 754-762: the rows found, as dicts
knowledge_dicts(results) ==
    [i \in 1..Len(results) |->
        [summary_date |-> results[i].summary_date,
         summary_summary |-> results[i].summary_summary,
         topics |-> IF Truthy(results[i].topics) THEN results[i].topics ELSE JList(<<>>)]]

\* query_knowledge_base_by_params(db, agent_id, query_params): .get on a
\* value that is no dict raises AttributeError.  ordered is what the index
\* query returns, fail whether the database fails it.
query_knowledge_base_by_params(ordered, query_params, day, fail) ==
    IF ~IsDict(query_params) THEN Raise("AttributeError")
    ELSE Ok(knowledge_dicts(search_agent_knowledge(
                ordered,
                IF Truthy(Get(query_params, "date", JNull))
                THEN parse_date_from_keyword(Get(query_params, "date", JNull), day)
                ELSE <<>>,
                NoneIfEmpty(Get(query_params, "keywords", JList(<<>>))),
                5, fail)))

FormatPrompt == Str("[reply format]")
MemoryHeader == Str("[related memories]")

\* ', '.join(topics): TypeError when an element is no str
join_topics(topics) ==
    IF ~Iterate(topics).ok
       \/ \E i \in 1..Len(Iterate(topics).v) : ~IsStr(Iterate(topics).v[i])
    THEN Raise("TypeError")
    ELSE Ok(Join(Str(", "), [i \in 1..Len(Iterate(topics).v) |->
                                Format(Iterate(topics).v[i])]))

\* the prompt parts of one retrieved memory
RECURSIVE memory_parts(_)
memory_parts(knowledge_context) ==
    IF knowledge_context = <<>> THEN Ok(<<>>)
    ELSE IF Truthy(knowledge_context[1].topics) /\ ~join_topics(knowledge_context[1].topics).ok
    THEN Raise("TypeError")
    ELSE IF ~memory_parts(Tail(knowledge_context)).ok THEN Raise("TypeError")
    ELSE Ok(<<Cat(Str("date: "), Str(ToString(knowledge_context[1].summary_date))),
              Cat(Str("content: "), Format(knowledge_context[1].summary_summary))>>
            \o (IF Truthy(knowledge_context[1].topics)
                THEN <<Cat(Str("topics: "), join_topics(knowledge_context[1].topics).v)>>
                ELSE <<>>)
            \o memory_parts(Tail(knowledge_context)).v)

\* build_agent_prompt(agent, knowledge_context)
build_agent_prompt(current_prompt, knowledge_context) ==
    IF knowledge_context = <<>>
    THEN Ok(Join(PromptSep, <<current_prompt, FormatPrompt>>))
    ELSE IF ~memory_parts(knowledge_context).ok THEN Raise("TypeError")
    ELSE Ok(Join(PromptSep, <<current_prompt, FormatPrompt, MemoryHeader>>
                            \o memory_parts(knowledge_context).v))

\* the knowledge base queried for every batch
needs_knowledge_always(intent_result) == TRUE

\* lines 928-930: the knowledge base is queried for a KNOWLEDGE_QUERY with
\* truthy query_params
needs_knowledge(intent_result) ==
    intent_result.intent = JStr(Str(KNOWLEDGE_QUERY)) /\ Truthy(intent_result.query_params)

\* lines 926-935; <<>> stands for None as well as for no row found
batch_knowledge(intent_result, env) ==
    IF needs_knowledge(intent_result)
    THEN query_knowledge_base_by_params(env.ordered, intent_result.query_params,
                                        env.day, env.fail = "index")
    ELSE Ok(<<>>)

\* lines 914-942: intent, knowledge, the enhanced prompt
batch_prompt(current_prompt, knowledge) ==
    IF ~knowledge.ok THEN knowledge ELSE build_agent_prompt(current_prompt, knowledge.v)

\* the element of a one-element set
The(S) == CHOOSE x \in S : TRUE

\* lines 966-981: the model's response and its parsing
batch_answer(committed, w2, session_id, batch_id, current_prompt, env, enhanced_prompt) ==
    IF ~enhanced_prompt.ok \/ env.fail = "model"
    THEN BatchResult(rollback(committed, w2), "error", NoError,
                     current_prompt, batch_id, <<>>)
    ELSE batch_store(committed, w2, session_id, batch_id, current_prompt,
                     safe_parse_agent_reply(env.raw, env.rnd), env.fail)

\* lines 912-981: intent_result and knowledge_context are computed once each
batch_reply(committed, w2, session_id, batch_id, current_prompt, env) ==
    The({ batch_answer(committed, w2, session_id, batch_id, current_prompt, env,
                       batch_prompt(current_prompt, knowledge_context)) :
            knowledge_context \in
                { batch_knowledge(intent_result, env) :
                    intent_result \in { detect_agent_intent(env.completion).v } } })

\* lines 894-910: the batch id, the user messages added and flushed
batch_users(committed, w1, session_id, batch_id, current_prompt, filtered_messages, env) ==
    batch_reply(committed,
                [w1 EXCEPT !.messages =
                    @ \o UserRows(w1, session_id, batch_id, filtered_messages)],
                session_id, batch_id, current_prompt, env)

\* lines 883-891: validation, then the session
batch_checked(d, w0, agent_id, current_prompt, user_messages, checked, env) ==
    IF ~checked.valid
    THEN BatchResult(rollback(d, w0), "ValueError", checked.error,
                     current_prompt, 0, <<>>)
    ELSE batch_users(\* get_or_create_agent_session commits when it creates
                     IF find_session(d, agent_id) = <<>>
                     THEN get_or_create_agent_session(w0, agent_id) ELSE d,
                     get_or_create_agent_session(w0, agent_id),
                     find_session(get_or_create_agent_session(w0, agent_id),
                                  agent_id)[1].id,
                     FreshBatchId(w0), current_prompt, filtered(user_messages), env)

\* lines 879-881: the stored prompt is recomputed before anything else
batch_found(d, agent, current_prompt, user_messages, env) ==
    batch_checked(d, SetCurrentPrompt(d, agent.id, current_prompt), agent.id,
                  current_prompt, user_messages, validate_batch_messages(user_messages),
                  env)

\* send_batch_messages_to_agent(db, user, agent_id, user_messages).  env is
\* what the call meets: completion, what the classifier's gateway gives
\* detect_agent_intent; fail, where the environment fails the call ("index",
\* "model", "commit" or "none"); ordered, the agent's knowledge index rows
\* as the index query orders them; day, date.today(); raw and rnd, the
\* model's response and the parser's random draws.
send_batch_messages_to_agent(d, user, agent_id, user_messages, env) ==
    LET found == get_agent_for_user(d, user, agent_id)
    IN  IF found = <<>>
        THEN BatchResult(rollback(d, d), "ValueError", ErrAgentNotFound, <<>>, 0, <<>>)
        ELSE batch_found(d, found[1], calculate_current_prompt(d, found[1]),
                         user_messages, env)


-----------------------------------------------------------------------------
(* The calls made on the persisted state.                                  *)

SendInputs ==
    { <<Cat(Str(" "), MsgHi), <<>>, Str("who are you")>>,
      <<MsgBlank, <<>>>>,
      <<>>,
      [i \in 1..(MAX_MESSAGE_COUNT + 1) |-> MsgHi],
      <<MsgOverLimit>> }

ReplyB == JObj([content |-> JStr(TextB)])

\* a fenced response of two replies: the first proposes delay 3, the second none
FencedA3B ==
    <<FenceJson, Prose(Str("\n")), Doc(JObj([replies |-> JList(<<ReplyA3, ReplyB>>)])),
      Prose(Str("\n")), Fence>>

\* a replies array whose only element is neither an object nor a string
NoReplies == <<Doc(JObj([replies |-> JList(<<JNum(1)>>)]))>>

BatchResponses == { FencedA3B, NoReplies }

NoDraws == [i \in 1..MaxReplies |-> min_delay]

BatchDraws == { [i \in 1..MaxReplies |-> d] : d \in {min_delay, max_delay} }

\* what the classifier answers
ChatAnswer ==
    Ok(Content(<<Doc(JObj([intent |-> JStr(Str(NORMAL_CHAT)), confidence |-> JNum(1)]))>>))

QueryAnswer ==
    Ok(Content(<<Doc(JObj([intent |-> JStr(Str(KNOWLEDGE_QUERY)), confidence |-> JNum(1),
                           query_params |-> JObj([date |-> JStr(Str("2024-01-05")),
                                                  keywords |-> JList(<<JStr(Str("K"))>>)])]))>>))

\* a knowledge query whose query_params is a list
ListParamsAnswer ==
    Ok(Content(<<Doc(JObj([intent |-> JStr(Str(KNOWLEDGE_QUERY)), confidence |-> JNum(1),
                           query_params |-> JList(<<JStr(Str("K"))>>)]))>>))

\* a knowledge query whose date and keywords are numbers
NumberParamsAnswer ==
    Ok(Content(<<Doc(JObj([intent |-> JStr(Str(KNOWLEDGE_QUERY)), confidence |-> JNum(1),
                           query_params |-> JObj([date |-> JNum(1),
                                                  keywords |-> JNum(1)])]))>>))

BatchEnvs ==
    { [completion |-> ChatAnswer, fail |-> "none", raw |-> r, rnd |-> d] :
        r \in {FencedA3B}, d \in BatchDraws }
    \cup { [completion |-> ChatAnswer, fail |-> "none", raw |-> NoReplies, rnd |-> NoDraws] }
    \cup { [completion |-> c, fail |-> f, raw |-> FencedA3B, rnd |-> NoDraws] :
             c \in {QueryAnswer, NumberParamsAnswer}, f \in {"none", "index"} }
    \cup { [completion |-> c, fail |-> "none", raw |-> FencedA3B, rnd |-> NoDraws] :
             c \in {Raise("APIError"), Ok(NoContent), Ok(Content(<<Prose(Str("jide"))>>)),
                    ListParamsAnswer} }
    \cup { [completion |-> ChatAnswer, fail |-> f, raw |-> FencedA3B, rnd |-> NoDraws] :
             f \in {"model", "commit"} }

SummaryS == Str("S")
ImpactI == Str("I")
SummaryRaw == Str("R")

SummaryResponses ==
    { <<Doc(JObj([summary |-> JStr(SummaryS), impact |-> JStr(ImpactI),
                  topics |-> JList(<<JStr(Str("t"))>>),
                  keywords |-> JList(<<JStr(Str("k"))>>)]))>>,
      <<Prose(SummaryRaw)>>,
      <<Doc(JObj([summary |-> JNull]))>> }

ClearEnvs ==
    { [fail |-> "none", raw |-> r] : r \in SummaryResponses }
    \cup { [fail |-> f, raw |-> <<Prose(SummaryRaw)>>] : f \in {"model", "commit"} }

ValidInputs == { m \in SendInputs : validate_batch_messages(m).valid }

QuietEnv == [completion |-> ChatAnswer, fail |-> "none", raw |-> FencedA3B, rnd |-> NoDraws]

\* the batch sends tried: the owner's valid batch under every environment;
\* a rejected batch, or a caller without the agent, never reaches the model
BatchCalls ==
    { [caller |-> <<Owner, 1>>, messages |-> m, env |-> e] :
        m \in ValidInputs, e \in BatchEnvs }
    \cup { [caller |-> c, messages |-> m, env |-> QuietEnv] :
             c \in Callers, m \in SendInputs \ ValidInputs }
    \cup { [caller |-> c, messages |-> m, env |-> QuietEnv] :
             c \in Callers \ {<<Owner, 1>>}, m \in ValidInputs }

\* the consolidations tried
ClearCalls ==
    { [caller |-> <<Owner, 1>>, env |-> e] : e \in ClearEnvs }
    \cup { [caller |-> c, env |-> [fail |-> "none", raw |-> <<Prose(SummaryRaw)>>]] :
             c \in Callers \ {<<Owner, 1>>} }

InitLast ==
    [op |-> "none", user |-> "none", agent_id |-> 0, status |-> "none",
     prompt_before |-> <<>>, changed |-> FALSE, prompt_used |-> <<>>, batch_id |-> 0, replies |-> <<>>,
     summary |-> <<>>, deleted_date |-> 0, remaining_count |-> 0, preview |-> <<>>]

DbIdle == db = EmptyDb /\ today = 1 /\ last = InitLast

\* a batch send; cap bounds the messages a session holds when a batch is added
SendBatchWithin(cap, user, agent_id, user_messages, env) ==
    /\ \E ordered \in query_orders(db.knowledge_indexes, agent_id) :
       \E r \in { send_batch_messages_to_agent(db, user, agent_id, user_messages,
                        env @@ [ordered |-> ordered, day |-> today]) } :
           /\ r.status = "ok" => Len(db.messages) < cap
           /\ db' = r.db
           /\ last' = [Call("send_batch", user, agent_id, r.status, db) EXCEPT
                          !.changed = (r.db # db),
                          !.prompt_used = r.prompt_used,
                          !.batch_id = r.batch_id,
                          !.replies = r.replies]
    /\ UNCHANGED <<today, parse_vars, validate_vars, call_vars>>

ClearChat(user, agent_id, env) ==
    /\ \E r \in { clear_chat_and_summarize(db, user, agent_id, env.fail, env.raw, today) } :
           /\ r.status = "ok" => Len(db.prompt_history) < MaxHistory
           /\ db' = r.db
           /\ last' = [Call("clear_chat", user, agent_id, r.status, db) EXCEPT
                          !.changed = (r.db # db),
                          !.summary = r.summary]
    /\ UNCHANGED <<today, parse_vars, validate_vars, call_vars>>

SendBatch(user, agent_id, user_messages, env) ==
    SendBatchWithin(MaxLive, user, agent_id, user_messages, env)

\* routes.py get_agent: the agent detail, current_prompt as stored
GetAgent(user, agent_id) ==
    /\ LET found == get_agent_for_user(db, user, agent_id)
       IN  last' = IF found = <<>>
                   THEN Call("get_agent", user, agent_id, "not_found", db)
                   ELSE [Call("get_agent", user, agent_id, "ok", db) EXCEPT
                            !.prompt_used = found[1].current_prompt]
    /\ UNCHANGED <<db, today, parse_vars, validate_vars, call_vars>>

CallIdle == c_pc = "idle" /\ c_in = <<>> /\ c_out = <<>>

Init == DbIdle /\ ParseIdle /\ ValidateIdle /\ CallIdle

Next ==
    \/ CreateAgent
    \/ \E b \in BatchCalls : SendBatch(b.caller[1], b.caller[2], b.messages, b.env)
    \/ \E c \in ClearCalls : ClearChat(c.caller[1], c.caller[2], c.env)
    \/ \E c \in Callers : DeleteLatest(c[1], c[2])
    \/ \E c \in Callers : GetAgent(c[1], c[2])

Spec == Init /\ [][Next]_vars

InitParse == ParseStart /\ ValidateIdle /\ DbIdle /\ CallIdle

NextParse == Parse /\ UNCHANGED <<validate_vars, db_vars, call_vars>>

SpecParse == InitParse /\ [][NextParse]_vars

InitValidate == ValidateStart /\ ParseIdle /\ DbIdle /\ CallIdle

NextValidate == Validate /\ UNCHANGED <<parse_vars, db_vars, call_vars>>

SpecValidate == InitValidate /\ [][NextValidate]_vars

\* A conversation without consolidation: batch after batch in one session.
MaxChat == 5

ChatBatch(user, agent_id, user_messages, env) ==
    SendBatchWithin(MaxChat, user, agent_id, user_messages, env)

NextChat ==
    \/ CreateAgent
    \/ \E b \in BatchCalls : ChatBatch(b.caller[1], b.caller[2], b.messages, b.env)
    \/ \E c \in Callers : GetAgent(c[1], c[2])

SpecChat == Init /\ [][NextChat]_vars

InitIntent == IntentStart /\ ParseIdle /\ ValidateIdle /\ DbIdle

NextIntent == DetectIntent /\ UNCHANGED <<parse_vars, validate_vars, db_vars>>

SpecIntent == InitIntent /\ [][NextIntent]_vars

InitSearch == SearchStart /\ ParseIdle /\ ValidateIdle /\ DbIdle

NextSearch == Search /\ UNCHANGED <<parse_vars, validate_vars, db_vars>>

SpecSearch == InitSearch /\ [][NextSearch]_vars

-----------------------------------------------------------------------------
(* Claims about the stored prompt and the batch send, checked under Spec.  *)

\* the added_prompt of the agent's surviving PromptHistory entries, oldest first
SurvivingPrompts(agent) ==
    AddedPrompts(SelectSeq(db.prompt_history, LAMBDA h : h.agent_id = agent.id))

\* initial_prompt and the surviving added prompts, a blank line between them
JoinedPrompt(agent) ==
    Join(PromptSep, <<agent.initial_prompt>> \o SurvivingPrompts(agent))

Stale == \E i \in 1..Len(db.agents) : db.agents[i].current_prompt # JoinedPrompt(db.agents[i])

\* C1: after any sequence of creation, consolidations and undo-last calls the
\* stored current_prompt of every agent is its initial_prompt followed by the
\* added_prompt of each surviving PromptHistory entry in creation order,
\* joined by a blank line.
C1_StoredPromptIsJoin ==
    \A i \in 1..Len(db.agents) :
        db.agents[i].current_prompt = JoinedPrompt(db.agents[i])

\* C2: an undo-last that directly follows a successful consolidation leaves
\* the stored current_prompt equal to its value before the consolidation.
C2_UndoRestoresPrompt ==
    [][ ( /\ last.op = "clear_chat" /\ last.status = "ok"
          /\ last'.op = "delete_latest" /\ last'.status = "ok"
          /\ last'.agent_id = last.agent_id )
        => StoredPrompt(db', last.agent_id) = last.prompt_before ]_vars

\* C3: the current_prompt a batch send builds its system prompt from, and the
\* one the agent detail returns, is the recomputation from initial_prompt and
\* the PromptHistory entries surviving at that moment.
C3_UsedPromptIsFresh ==
    (last.op \in {"send_batch", "get_agent"} /\ last.status = "ok") =>
        \A i \in 1..Len(db.agents) :
            db.agents[i].id = last.agent_id =>
                last.prompt_used = JoinedPrompt(db.agents[i])

\* C10: a send_batch call rejected by validation, or for an agent the caller
\* does not have, commits no change to any table.
C10_RejectedBatchCommitsNothing ==
    (last.op = "send_batch" /\ last.status = "ValueError") => ~last.changed

\* C10 witness: a batch of the owner was rejected by validation while the
\* session held messages, a summary survived and the stored prompt was stale,
\* so that the recomputation the call starts with had something to change.
C10_Witness ==
    /\ last.op = "send_batch" /\ last.status = "ValueError"
    /\ get_agent_for_user(db, last.user, last.agent_id) # <<>>
    /\ db.messages # <<>> /\ db.prompt_history # <<>> /\ db.knowledge_indexes # <<>>
    /\ Stale

\* the batch ids that have a message of the given role
BatchIds(role) == { db.messages[i].batch_id : i \in { j \in 1..Len(db.messages) : db.messages[j].role = role } }

\* C11: a batch send that fails after its user messages were flushed commits
\* none of them, and in every committed state each batch_id that has user
\* messages has assistant replies as well.
C11_BatchIsAtomic ==
    /\ (last.op = "send_batch" /\ last.status = "error") => ~last.changed
    /\ BatchIds("user") \subseteq BatchIds("assistant")

\* what a stored message shows of its batch
Shown(m) ==
    [session_id |-> m.session_id, role |-> m.role, content |-> m.content,
     batch_id |-> m.batch_id, batch_index |-> m.batch_index,
     send_delay_seconds |-> m.send_delay_seconds]

\* the inputs that are not blank, trimmed, in their order
NonEmptyTrimmed(inputs) ==
    LET kept == SelectSeq(inputs, LAMBDA m : Strip(m) # <<>>)
    IN  [i \in 1..Len(kept) |-> Strip(kept[i])]

\* the messages a batch should add: its inputs, then the returned replies
ExpectedGain(session_id, inputs, batch_id, replies) ==
    [i \in 1..Len(NonEmptyTrimmed(inputs)) |->
        [session_id |-> session_id, role |-> "user",
         content |-> JStr(NonEmptyTrimmed(inputs)[i]),
         batch_id |-> batch_id, batch_index |-> i - 1, send_delay_seconds |-> JNull]]
    \o [j \in 1..Len(replies) |->
        [session_id |-> session_id, role |-> "assistant", content |-> replies[j].content,
         batch_id |-> batch_id, batch_index |-> j - 1,
         send_delay_seconds |-> replies[j].send_delay_seconds]]

\* the messages of the next state that the current state does not have
Gained ==
    [i \in 1..(Len(db'.messages) - Len(db.messages)) |->
        Shown(db'.messages[Len(db.messages) + i])]

C12_Step ==
    \A b \in BatchCalls :
        (ChatBatch(b.caller[1], b.caller[2], b.messages, b.env) /\ last'.status = "ok")
        => /\ Len(db'.messages) >= Len(db.messages)
           /\ SubSeq(db'.messages, 1, Len(db.messages)) = db.messages
           /\ Gained = ExpectedGain(find_session(db', b.caller[2])[1].id, b.messages,
                                    last'.batch_id, last'.replies)

\* C12: a successful batch send adds to the agent's session exactly the
\* trimmed non-empty inputs as user messages and exactly the returned replies
\* as assistant messages, all with the returned batch_id, batch_index the
\* position in the list, and send_delay_seconds the returned delay.
C12_BatchStoredAsReturned == [][C12_Step]_vars

\* a batch of two replies was added to a session that already held a batch
C12_Witness ==
    /\ last.op = "send_batch" /\ last.status = "ok"
    /\ Len(last.replies) = 2
    /\ Len(db.messages) > 4
    /\ \E i \in 1..Len(db.messages) : db.messages[i].batch_id # last.batch_id

\* the messages of the agent's live session
LiveMessages(d, agent_id) ==
    SelectSeq(d.messages,
              LAMBDA m : \E i \in 1..Len(d.sessions) :
                  d.sessions[i].id = m.session_id /\ d.sessions[i].agent_id = agent_id)

C13_Step ==
    \A c \in ClearCalls :
        (/\ ClearChat(c.caller[1], c.caller[2], c.env)
         /\ get_agent_for_user(db, c.caller[1], c.caller[2]) # <<>>
         /\ LiveMessages(db, c.caller[2]) = <<>>)
        => /\ last'.status = "noop" /\ last'.summary = <<>>
           /\ db'.prompt_history = db.prompt_history
           /\ db'.knowledge_indexes = db.knowledge_indexes
           /\ db'.agents = db.agents
           /\ db'.messages = db.messages

\* C13: consolidating a session with zero messages, however often and whatever
\* the model would do, returns success with no summary, creates no
\* PromptHistory or KnowledgeIndex row, and leaves the agent's current_prompt
\* and last_summarized_at as they were.
C13_EmptyConsolidationIsNoOp == [][C13_Step]_vars

\* an empty session was consolidated again after an earlier consolidation
C13_Witness ==
    /\ last.op = "clear_chat" /\ last.status = "noop"
    /\ db.prompt_history # <<>>
    /\ LiveMessages(db, last.agent_id) = <<>>

\* the agent's rows of a table
OfAgent(rows, agent_id) == SelectSeq(rows, LAMBDA h : h.agent_id = agent_id)

\* one row was appended to the table and no other row changed
OneMore(before, after) ==
    Len(after) = Len(before) + 1 /\ SubSeq(after, 1, Len(before)) = before

\* the effects of a successful consolidation of the agent, from db to db'
Consolidated(agent_id) ==
    /\ OneMore(db.prompt_history, db'.prompt_history)
    /\ OneMore(db.knowledge_indexes, db'.knowledge_indexes)
    /\ db'.prompt_history[Len(db'.prompt_history)].agent_id = agent_id
    /\ db'.knowledge_indexes[Len(db'.knowledge_indexes)].agent_id = agent_id
    /\ LiveMessages(db', agent_id) = <<>>
    /\ \A other \in AgentIds \ {agent_id} :
          LiveMessages(db', other) = LiveMessages(db, other)
    /\ \A i \in 1..Len(db'.agents) :
          db'.agents[i].id = agent_id
          => /\ db'.agents[i].current_prompt =
                  Join(PromptSep, <<db'.agents[i].initial_prompt>>
                                  \o AddedPrompts(OfAgent(db'.prompt_history, agent_id)))
             /\ db'.agents[i].last_summarized_at = today

C14_Step ==
    \A c \in ClearCalls :
        (/\ ClearChat(c.caller[1], c.caller[2], c.env)
         /\ get_agent_for_user(db, c.caller[1], c.caller[2]) # <<>>
         /\ LiveMessages(db, c.caller[2]) # <<>>)
        => /\ last'.status \in {"ok", "error"}
           /\ c.env.fail # "none" => last'.status = "error"
           /\ last'.status = "ok" => Consolidated(c.caller[2])
           /\ last'.status = "error" => db' = db

IndexesOf(h) ==
    { i \in 1..Len(db.knowledge_indexes) :
        db.knowledge_indexes[i].prompt_history_id = h.id }

\* the PromptHistory entries a knowledge index points to, by position
HistoriesOf(k) ==
    { i \in 1..Len(db.prompt_history) : db.prompt_history[i].id = k.prompt_history_id }

\* C15: in every committed state each PromptHistory entry has exactly one
\* KnowledgeIndex, and each KnowledgeIndex belongs to exactly one existing
\* PromptHistory, of the same agent and with the same summary_date.
C15_HistoryIndexOneToOne ==
    /\ \A i \in 1..Len(db.prompt_history) :
          Cardinality(IndexesOf(db.prompt_history[i])) = 1
    /\ \A j \in 1..Len(db.knowledge_indexes) :
          /\ Cardinality(HistoriesOf(db.knowledge_indexes[j])) = 1
          /\ \A i \in HistoriesOf(db.knowledge_indexes[j]) :
                /\ db.prompt_history[i].agent_id = db.knowledge_indexes[j].agent_id
                /\ db.prompt_history[i].summary_date = db.knowledge_indexes[j].summary_date

\* an undo-last removed one of two consolidations
C15_Witness ==
    /\ last.op = "delete_latest" /\ last.status = "ok"
    /\ Len(db.prompt_history) = 1 /\ Len(db.knowledge_indexes) = 1

\* the agent's most recently created PromptHistory entry in the current state
Latest(agent_id) ==
    OfAgent(db.prompt_history, agent_id)[Len(OfAgent(db.prompt_history, agent_id))]

C16_Step ==
    \A c \in Callers :
        (/\ DeleteLatest(c[1], c[2])
         /\ get_agent_for_user(db, c[1], c[2]) # <<>>)
        => IF OfAgent(db.prompt_history, c[2]) = <<>>
           THEN last'.status = "not_found" /\ db' = db
           ELSE /\ last'.status = "ok"
                /\ db'.prompt_history =
                      SelectSeq(db.prompt_history, LAMBDA h : h # Latest(c[2]))
                /\ Len(db'.prompt_history) = Len(db.prompt_history) - 1
                /\ db'.knowledge_indexes =
                      SelectSeq(db.knowledge_indexes,
                                LAMBDA k : k.prompt_history_id # Latest(c[2]).id)
                /\ Len(db'.knowledge_indexes) = Len(db.knowledge_indexes) - 1
                /\ db'.messages = db.messages

\* C16: undo-last deletes exactly one PromptHistory entry, the agent's most
\* recently created one, together with its KnowledgeIndex, and leaves every
\* other entry as it was; when the agent has no PromptHistory it reports
\* failure and changes nothing.
C16_UndoDeletesLatestOnly == [][C16_Step]_vars

\* an undo-last took the second of the agent's two entries and kept the first
C16_Witness ==
    /\ last.op = "delete_latest" /\ last.status = "ok" /\ last.changed
    /\ Len(OfAgent(db.prompt_history, last.agent_id)) = 1
    /\ OfAgent(db.prompt_history, last.agent_id)[1].id = 1

\* C17: when the gateway call of the classifier fails, detect_agent_intent
\* returns NORMAL_CHAT with confidence 0 and no query parameters; it raises
\* for no gateway error and for no response text.
C17_DetectNeverRaises ==
    c_pc = "done" =>
        /\ c_out.ok
        /\ ~c_in.ok => c_out.v = IntentResult(JStr(Str("NORMAL_CHAT")), JNum(0), JNull)

\* the gateway failed and the detector returned
C17_Witness == c_pc = "done" /\ ~c_in.ok /\ c_out.ok

\* C18: the intent returned is always NORMAL_CHAT or KNOWLEDGE_QUERY, whatever
\* JSON the classifier produced, and the query parameters are non-null only
\* when the intent is KNOWLEDGE_QUERY.
C18_IntentIsOneOfTwo ==
    c_pc = "done" =>
        /\ c_out.v.intent \in {JStr(Str("NORMAL_CHAT")), JStr(Str("KNOWLEDGE_QUERY"))}
        /\ c_out.v.query_params # JNull => c_out.v.intent = JStr(Str("KNOWLEDGE_QUERY"))

\* the keyword occurs in the text, without regard to case
Occurs(keyword, text) == IsSubstring(Lower(keyword.s), Lower(text))

\* the texts of a topics or keywords column
TextsOf(column) ==
    IF column = JNull THEN <<>>
    ELSE [i \in 1..Len(column.items) |-> column.items[i].s]

\* the score as stated: 1, 2 and 3 points per keyword
ScorePerKeyword(index, keywords) ==
    Cardinality({ j \in 1..Len(keywords) : Occurs(keywords[j], index.summary_summary.s) })
    + 2 * Cardinality({ j \in 1..Len(keywords) :
            \E i \in 1..Len(TextsOf(index.topics)) :
                Occurs(keywords[j], TextsOf(index.topics)[i]) })
    + 3 * Cardinality({ j \in 1..Len(keywords) :
            \E i \in 1..Len(TextsOf(index.keywords)) :
                Lower(keywords[j].s) = Lower(TextsOf(index.keywords)[i]) })

\* the score with 2 and 3 points per pair of a keyword and a topic or an
\* indexed keyword
ScorePerPair(index, keywords) ==
    Cardinality({ j \in 1..Len(keywords) : Occurs(keywords[j], index.summary_summary.s) })
    + 2 * Cardinality({ p \in (1..Len(keywords)) \X (1..Len(TextsOf(index.topics))) :
                          Occurs(keywords[p[1]], TextsOf(index.topics)[p[2]]) })
    + 3 * Cardinality({ p \in (1..Len(keywords)) \X (1..Len(TextsOf(index.keywords))) :
                          Lower(keywords[p[1]].s) = Lower(TextsOf(index.keywords)[p[2]]) })

\* the rows of the agent that the date filter lets through and that score;
\* score[i] is the score of row i
Qualifying(score) ==
    { i \in 1..Len(c_in.rows) :
        /\ c_in.rows[i].agent_id = 1
        /\ c_in.dates # <<>> =>
              \E d \in 1..Len(c_in.dates) : c_in.dates[d] = c_in.rows[i].summary_date
        /\ score[i] > 0 }

\* the reference orderings: the qualifying rows by score descending, rows of
\* one score by date descending
ReferenceOrders(score) ==
    LET q == Qualifying(score)
        n == Cardinality(q)
    IN  { [k \in 1..n |-> c_in.rows[f[k]]] :
            f \in { g \in [1..n -> q] :
                /\ \A a, b \in 1..n : a # b => g[a] # g[b]
                /\ \A a, b \in 1..n : a < b =>
                      \/ score[g[a]] > score[g[b]]
                      \/ /\ score[g[a]] = score[g[b]]
                         /\ c_in.rows[g[a]].summary_date >= c_in.rows[g[b]].summary_date } }

\* the search was given a non-empty list of str keywords
StrKeywords ==
    /\ c_in.keywords.t = "list" /\ c_in.keywords.items # <<>>
    /\ \A j \in 1..Len(c_in.keywords.items) : c_in.keywords.items[j].t = "str"

\* C19 as stated: a search with keywords returns the first limit entries of
\* the ordering by score descending, then date descending, of the entries
\* that score, the score being +1 per keyword that is a case-insensitive
\* substring of the summary, +2 per keyword matching any topic and +3 per
\* keyword equal to any indexed keyword.
C19_ScorePerKeyword ==
    (c_pc = "done" /\ StrKeywords) =>
        c_out \in { FirstN(r, c_in.limit) :
                      r \in ReferenceOrders([i \in 1..Len(c_in.rows) |->
                              ScorePerKeyword(c_in.rows[i], c_in.keywords.items)]) }

\* C19 as the code has it: the same ordering, the score being +1 per keyword
\* that is a case-insensitive substring of the summary, +2 per pair of a
\* keyword and a topic that contains it, +3 per pair of a keyword and an
\* indexed keyword equal to it, both without regard to case.
C19_ScorePerPair ==
    (c_pc = "done" /\ StrKeywords) =>
        c_out \in { FirstN(r, c_in.limit) : r \in ReferenceOrders([i \in 1..Len(c_in.rows) |->
                              ScorePerPair(c_in.rows[i], c_in.keywords.items)]) }

\* a search returned first an entry that has the keyword in two topics and
\* then one that has it among its indexed keywords
C19_Witness ==
    /\ c_pc = "done" /\ StrKeywords
    /\ Len(c_out) = 2
    /\ c_out[1].topics # JNull /\ c_out[2].keywords # JNull

C20_Step ==
    \A b \in BatchCalls :
        (/\ SendBatch(b.caller[1], b.caller[2], b.messages, b.env)
         /\ get_agent_for_user(db, b.caller[1], b.caller[2]) # <<>>
         /\ validate_batch_messages(b.messages).valid
         /\ b.env.fail \notin {"model", "commit"})
        => last'.status = "ok"

\* C20: in a batch send no failure of the intent classification or of the
\* knowledge retrieval (gateway error, undecodable or unexpectedly shaped
\* classifier output such as malformed query parameters, index query error)
\* makes the call fail: a valid batch of an owned agent whose primary model
\* call and commit succeed is stored.
C20_EnrichmentNeverFails == [][C20_Step]_vars

-----------------------------------------------------------------------------
(* Claims about consolidation, ownership and the session, under Spec.      *)

\* the summary response does not decode: neither its brace span nor, when it
\* has none, the text with its fences stripped
SummaryUnparsed(raw) ==
    ~summary_loads(clean_markdown_code_block(raw),
                   brace_search(clean_markdown_code_block(raw))).ok

\* the entry a consolidation appended holds the raw response and no list
RawStored(raw) ==
    /\ OneMore(db.prompt_history, db'.prompt_history)
    /\ OneMore(db.knowledge_indexes, db'.knowledge_indexes)
    /\ db'.prompt_history[Len(db'.prompt_history)].added_prompt = RawText(raw)
    /\ db'.knowledge_indexes[Len(db'.knowledge_indexes)].summary_summary = JStr(RawText(raw))
    /\ db'.knowledge_indexes[Len(db'.knowledge_indexes)].topics = JNull
    /\ db'.knowledge_indexes[Len(db'.knowledge_indexes)].key_points = JNull
    /\ db'.knowledge_indexes[Len(db'.knowledge_indexes)].keywords = JNull

C21_Step ==
    \A c \in ClearCalls :
        (/\ ClearChat(c.caller[1], c.caller[2], c.env)
         /\ get_agent_for_user(db, c.caller[1], c.caller[2]) # <<>>
         /\ LiveMessages(db, c.caller[2]) # <<>>
         /\ c.env.fail = "none")
        => /\ last'.status = "ok"
           /\ SummaryUnparsed(c.env.raw) => RawStored(c.env.raw)

\* C21: a consolidation whose model call and commit succeed never fails
\* because of the format of the model's output; when the response cannot be
\* parsed as JSON the entire raw text is stored as the added_prompt and as the
\* index summary, with no topics, key points or keywords.
C21_FormatNeverFails == [][C21_Step]_vars

\* the agent exists and belongs to somebody else than the user
NotOwner(user, agent_id) ==
    \E i \in 1..Len(db.agents) :
        db.agents[i].id = agent_id /\ db.agents[i].user_id # user

C22_Step ==
    /\ \A b \in BatchCalls :
          (NotOwner(b.caller[1], b.caller[2])
           /\ SendBatch(b.caller[1], b.caller[2], b.messages, b.env))
          => db' = db /\ last'.status = "ValueError" /\ last'.replies = <<>>
    /\ \A c \in ClearCalls :
          (NotOwner(c.caller[1], c.caller[2]) /\ ClearChat(c.caller[1], c.caller[2], c.env))
          => db' = db /\ last'.status = "not_found" /\ last'.summary = <<>>
    /\ \A c \in Callers :
          (NotOwner(c[1], c[2]) /\ DeleteLatest(c[1], c[2]))
          => db' = db /\ last'.status = "not_found"

\* C22: a batch send, a consolidation or an undo-last called by a user who
\* does not own the agent changes no row of any table (messages,
\* PromptHistory, KnowledgeIndex, session, agent) and reports not-found.
C22_StrangerChangesNothing == [][C22_Step]_vars

\* a stranger's call was refused while the agent had live messages and a
\* summary that the call would have touched
C22_Witness ==
    /\ last.op \in {"send_batch", "clear_chat", "delete_latest"}
    /\ NotOwner(last.user, last.agent_id)
    /\ last.status \in {"ValueError", "not_found"}
    /\ LiveMessages(db, last.agent_id) # <<>>
    /\ OfAgent(db.prompt_history, last.agent_id) # <<>>

-----------------------------------------------------------------------------
(* service.py: get_or_create_agent_session under concurrent callers.  Each *)
(* caller has its own SQLAlchemy session; a query reads the committed      *)
(* rows, a commit is checked against the table's constraints.              *)

Procs == {1, 2}

\* an agent row whose session row is missing: the state the creating branch
\* of get_or_create_agent_session (lines 279-284) is written for
AgentOnly ==
    [EmptyDb EXCEPT !.agents =
        <<[id |-> 1, user_id |-> Owner, name |-> NameN, initial_prompt |-> PromptP,
           current_prompt |-> PromptP, last_summarized_at |-> 0]>>]

\* the commit of a new session row with no constraint on agent_id
commit_session_unchecked(d, agent_id) ==
    Ok([d EXCEPT !.sessions = Append(@, [id |-> NextId(d.sessions), agent_id |-> agent_id])])

\* db.add(session); db.commit(): agent_id is unique=True (models/agent.py 95-101),
\* so a second row for the agent is refused with IntegrityError
commit_session(d, agent_id) ==
    IF find_session(d, agent_id) # <<>> THEN Raise("IntegrityError")
    ELSE Ok([d EXCEPT !.sessions =
                Append(@, [id |-> NextId(d.sessions), agent_id |-> agent_id])])

\* lines 267-275: the query; an existing session is returned at once
SessionQuery(p, agent_id) ==
    /\ c_pc[p] \in {"idle", "done"}
    /\ c_in' = [c_in EXCEPT ![p] = find_session(db, agent_id)]
    /\ IF find_session(db, agent_id) # <<>>
       THEN /\ c_pc' = [c_pc EXCEPT ![p] = "done"]
            /\ c_out' = [c_out EXCEPT ![p] = Ok(find_session(db, agent_id)[1].id)]
       ELSE /\ c_pc' = [c_pc EXCEPT ![p] = "create"]
            /\ c_out' = [c_out EXCEPT ![p] = <<>>]
    /\ UNCHANGED <<db, today, last, parse_vars, validate_vars>>

\* lines 279-291: the session added and committed; on an error the except
\* branch rolls back and re-raises
SessionCreate(p, agent_id) ==
    /\ c_pc[p] = "create"
    /\ \E r \in { commit_session(db, agent_id) } :
          /\ db' = IF r.ok THEN r.v ELSE db
          /\ c_out' = [c_out EXCEPT ![p] =
                          IF r.ok THEN Ok(find_session(r.v, agent_id)[1].id) ELSE r]
    /\ c_pc' = [c_pc EXCEPT ![p] = "done"]
    /\ UNCHANGED <<c_in, today, last, parse_vars, validate_vars>>

SummaryEnv ==
    [fail |-> "none",
     raw |-> <<Doc(JObj([summary |-> JStr(SummaryS), impact |-> JStr(ImpactI),
                         topics |-> JList(<<JStr(Str("t"))>>),
                         keywords |-> JList(<<JStr(Str("k"))>>)]))>>]

InitSession ==
    /\ db = AgentOnly /\ today = 1 /\ last = InitLast
    /\ c_pc = [p \in Procs |-> "idle"]
    /\ c_in = [p \in Procs |-> <<>>]
    /\ c_out = [p \in Procs |-> <<>>]
    /\ ParseIdle /\ ValidateIdle

NextSession ==
    \/ \E p \in Procs : SessionQuery(p, 1)
    \/ \E p \in Procs : SessionCreate(p, 1)
    \/ \E m \in ValidInputs : SendBatch(Owner, 1, m, QuietEnv)
    \/ ClearChat(Owner, 1, SummaryEnv)

SpecSession == InitSession /\ [][NextSession]_vars

-----------------------------------------------------------------------------
(* Claims about concurrent callers.                                        *)

\* the session rows of an agent, by position
SessionsOf(d, agent_id) == { i \in 1..Len(d.sessions) : d.sessions[i].agent_id = agent_id }

AtMostOneSession == \A a \in AgentIds : Cardinality(SessionsOf(db, a)) <= 1

C23_Step ==
    \* no step, consolidation included, deletes or changes a session row
    /\ Len(db'.sessions) >= Len(db.sessions)
    /\ SubSeq(db'.sessions, 1, Len(db.sessions)) = db.sessions
    \* an access that finds the session returns it and writes nothing
    /\ \A p \in Procs :
          (SessionsOf(db, 1) # {} /\ SessionQuery(p, 1))
          => /\ db' = db
             /\ c_out'[p] = Ok(db.sessions[CHOOSE i \in SessionsOf(db, 1) : TRUE].id)
    \* a consolidation empties the session and keeps its row
    /\ (ClearChat(Owner, 1, SummaryEnv) /\ last'.status = "ok")
       => /\ db'.sessions = db.sessions
          /\ SessionsOf(db', 1) # {}
          /\ LiveMessages(db', 1) = <<>>

\* C23: every agent has at most one ChatSession in every reachable state:
\* get_or_create_agent_session returns the existing session when there is
\* one, a second session is never committed even when two first accesses of
\* the agent interleave, and the session row survives consolidation.
C23_OneSessionPerAgent == []AtMostOneSession /\ [][C23_Step]_vars

\* both callers found no session and went on to create one: one commit
\* succeeded, the other was refused, and one session row exists
C23_Witness ==
    /\ c_pc = [p \in Procs |-> "done"]
    /\ c_in = [p \in Procs |-> <<>>]
    /\ \E p \in Procs : c_out[p].ok /\ ~c_out[3 - p].ok
    /\ Cardinality(SessionsOf(db, 1)) = 1

-----------------------------------------------------------------------------
(* chat/service.py: the streaming chat turn (create_session_and_ask_stream *)
(* and send_message_in_session_stream, the plain conversation branch) and  *)
(* its consumer, the sse_generator of chat/routes.py.  The service         *)
(* function is a generator: it runs from one yield to the next each time   *)
(* the consumer asks for an event.  In this specification db holds the     *)
(* committed chat_sessions and chat_messages tables.                       *)

MaxChunks == 2

QuestionQ == Str("q")

ChatDb ==
    [sessions |-> <<[id |-> 1, user_id |-> Owner, title |-> Str("t")]>>,
     messages |-> <<>>]

\* what ask_bot_stream / ask_with_messages_stream yields: content and
\* reasoning_content, <<>> for "" and None
ChunkKinds ==
    { [content |-> Str("a"), reasoning_content |-> <<>>],
      [content |-> <<>>, reasoning_content |-> Str("r")],
      [content |-> Str("b"), reasoning_content |-> Str("r")],
      [content |-> <<>>, reasoning_content |-> <<>>] }

ChunkStreams ==
    UNION { [1..n -> ChunkKinds] : n \in 0..MaxChunks }

Event(type, content) == [type |-> type, content |-> content]

\* the generator's frame: its arguments, its locals and where it stands
Frame(fn, session_id, stream, ending) ==
    [fn |-> fn, session_id |-> session_id, question |-> QuestionQ,
     stream |-> stream,         \* the chunks the model will deliver
     ending |-> ending,         \* "end", or "error" when the model call raises then
     pos |-> "begin", i |-> 0,
     full_answer |-> <<>>, reasoning_content_parts |-> <<>>,
     session |-> 0, user_msg |-> 0,
     working |-> ChatDb]        \* the transaction: committed rows and flushed ones

StreamCalls ==
    { Frame("create", 0, s, e) : s \in ChunkStreams, e \in {"end", "error"} }
    \cup { Frame("send", 1, s, e) : s \in ChunkStreams, e \in {"end", "error"} }
    \cup { Frame("send", 2, <<>>, "end") }

Resumed(st, committed, event) == [st |-> st, db |-> committed, event |-> event]

\* db.add(session); db.flush()
add_session(st) ==
    [st EXCEPT
        !.session = NextId(st.working.sessions),
        !.working.sessions =
            Append(@, [id |-> NextId(st.working.sessions), user_id |-> Owner,
                       title |-> st.question]),
        !.pos = "user"]

\* db.add(user_msg); db.flush()
add_user_msg(st, session_id) ==
    [st EXCEPT
        !.session = session_id,
        !.user_msg = NextId(st.working.messages),
        !.working.messages =
            Append(@, [id |-> NextId(st.working.messages), session_id |-> session_id,
                       role |-> "user", content |-> st.question,
                       reasoning_content |-> <<>>]),
        !.pos = "loop"]

\* db.add(assistant_msg); db.commit()
add_assistant_msg(st) ==
    [st EXCEPT
        !.working.messages =
            Append(@, [id |-> NextId(st.working.messages), session_id |-> st.session,
                       role |-> "assistant", content |-> st.full_answer,
                       reasoning_content |-> Join(<<>>, st.reasoning_content_parts)]),
        !.pos = "end"]

RECURSIVE stream_loop(_, _)
RECURSIVE stream_reasoning(_, _)

\* the head of the for loop over the model's chunks, up to the next yield
stream_loop(st, committed) ==
    IF st.i = Len(st.stream)
    THEN IF st.ending = "error"
         \* except Exception: db.rollback(); yield ("error", ...)
         THEN Resumed([st EXCEPT !.working = committed, !.pos = "end"], committed,
                      Event("error", <<>>))
         ELSE Resumed(add_assistant_msg(st), add_assistant_msg(st).working,
                      Event("complete", <<>>))
    ELSE IF st.stream[st.i + 1].content # <<>>
    THEN Resumed([st EXCEPT !.full_answer = Cat(@, st.stream[st.i + 1].content),
                            !.pos = "reasoning"],
                 committed, Event("chunk", st.stream[st.i + 1].content))
    ELSE stream_reasoning(st, committed)

\* the second half of the loop body: the reasoning part of the chunk
stream_reasoning(st, committed) ==
    IF st.stream[st.i + 1].reasoning_content # <<>>
    THEN Resumed([st EXCEPT !.reasoning_content_parts =
                                Append(@, st.stream[st.i + 1].reasoning_content),
                            !.i = @ + 1, !.pos = "loop"],
                 committed, Event("reasoning", st.stream[st.i + 1].reasoning_content))
    ELSE stream_loop([st EXCEPT !.i = @ + 1, !.pos = "loop"], committed)

\* get_session_for_user(db, user, session_id) of the chat module
get_session_for_user(d, user, session_id) ==
    SelectSeq(d.sessions, LAMBDA x : x.id = session_id /\ x.user_id = user)

\* next(generator): the frame runs to its next yield; event <<>> when the
\* generator returns instead
generator_next(st, committed) ==
    CASE st.pos = "begin" /\ st.fn = "create" ->
            Resumed(add_session(st), committed, Event("session_created", <<>>))
      [] st.pos = "begin" /\ st.fn = "send" ->
            IF get_session_for_user(st.working, Owner, st.session_id) = <<>>
            THEN Resumed([st EXCEPT !.pos = "end"], committed, Event("error", <<>>))
            ELSE Resumed(add_user_msg(st, st.session_id), committed,
                         Event("user_msg_created", st.question))
      [] st.pos = "user" ->
            Resumed(add_user_msg(st, st.session), committed,
                    Event("user_msg_created", st.question))
      [] st.pos = "loop" -> stream_loop(st, committed)
      [] st.pos = "reasoning" -> stream_reasoning(st, committed)
      [] st.pos = "end" -> Resumed(st, committed, <<>>)

StreamStart ==
    /\ c_pc = "ready"
    /\ c_in \in StreamCalls
    /\ c_out = <<>>
    /\ db = ChatDb /\ today = 1 /\ last = InitLast

\* sse_generator asks for the next event and forwards it
StreamNext ==
    /\ c_pc \in {"ready", "suspended"}
    /\ \E r \in { generator_next(c_in, db) } :
          /\ c_in' = r.st
          /\ db' = r.db
          /\ IF r.event = <<>>
             THEN c_pc' = "finished" /\ c_out' = c_out
             ELSE c_pc' = "suspended" /\ c_out' = Append(c_out, r.event)
    /\ UNCHANGED <<today, last, parse_vars, validate_vars>>

\* The consumer stops reading: the generator is closed where it is
\* suspended.  GeneratorExit is raised at the yield; it is no Exception, so
\* the except branch does not run, and get_db's db.close() ends the
\* transaction without a commit.
StreamCancel ==
    /\ c_pc = "suspended"
    /\ c_pc' = "cancelled"
    /\ c_in' = [c_in EXCEPT !.working = db]
    /\ UNCHANGED <<c_out, db, today, last, parse_vars, validate_vars>>

InitStream == StreamStart /\ ParseIdle /\ ValidateIdle

NextStream == StreamNext \/ StreamCancel

SpecStream == InitStream /\ [][NextStream]_vars

\* the text forwarded so far
RECURSIVE ForwardedText(_)
ForwardedText(events) ==
    IF events = <<>> THEN <<>>
    ELSE Cat(IF events[1].type = "chunk" THEN events[1].content ELSE <<>>,
             ForwardedText(Tail(events)))

\* the committed tables hold the turn's user message, in the session the
\* turn belongs to
UserMessageStored ==
    \E i \in 1..Len(db.messages) :
        /\ db.messages[i].role = "user"
        /\ db.messages[i].content = c_in.question
        /\ db.messages[i].session_id = c_in.session
        /\ \E j \in 1..Len(db.sessions) : db.sessions[j].id = c_in.session

\* C24: when a streaming chat turn is cancelled after some text was
\* forwarded, nothing more is forwarded and the turn is not lost: its user
\* message is in the committed tables (with the partial answer, or marked
\* incomplete; the user message is what either way of keeping the turn needs).
C24_CancelKeepsTurn ==
    /\ []((c_pc = "cancelled" /\ ForwardedText(c_out) # <<>>) => UserMessageStored)
    /\ [][c_pc = "cancelled" => c_out' = c_out]_vars

-----------------------------------------------------------------------------
(* Claims about what undo-last returns and about the audit snapshots,      *)
(* under Spec.                                                             *)

\* C27: a successful undo-last returns remaining_count equal to the number
\* of the agent's PromptHistory entries that survive the deletion, and a
\* preview computed from the prompt without the deleted delta.
C27_UndoReportsWhatRemains ==
    (last.op = "delete_latest" /\ last.status = "ok") =>
        /\ last.remaining_count = Len(OfAgent(db.prompt_history, last.agent_id))
        /\ \A i \in 1..Len(db.agents) :
              db.agents[i].id = last.agent_id =>
                  last.preview = Preview(JoinedPrompt(db.agents[i]))

\* the agent's surviving entries form a chain: each full_prompt_before is the
\* full_prompt_after of the entry before it, the first one's is initial_prompt
Chained(agent) ==
    LET mine == OfAgent(db.prompt_history, agent.id)
    IN  \A i \in 1..Len(mine) :
            /\ mine[i].full_prompt_before =
                  IF i = 1 THEN agent.initial_prompt ELSE mine[i - 1].full_prompt_after
            /\ mine[i].full_prompt_after =
                  Cat(Cat(mine[i].full_prompt_before, PromptSep), mine[i].added_prompt)

\* the entry a successful consolidation appended: its snapshots are the
\* prompt recomputed from the entries there were, and that prompt followed by
\* the new delta, which is what the agent row now stores
Snapshot(agent_id) ==
    LET h == db'.prompt_history[Len(db'.prompt_history)]
        before == Join(PromptSep,
                       <<SelectSeq(db.agents, LAMBDA a : a.id = agent_id)[1].initial_prompt>>
                       \o AddedPrompts(OfAgent(db.prompt_history, agent_id)))
    IN  /\ h.agent_id = agent_id
        /\ h.full_prompt_before = before
        /\ h.full_prompt_after = Cat(Cat(before, PromptSep), h.added_prompt)
        /\ StoredPrompt(db', agent_id) = h.full_prompt_after

C30_Step ==
    \A c \in ClearCalls :
        (/\ get_agent_for_user(db, c.caller[1], c.caller[2]) # <<>>
         /\ LiveMessages(db, c.caller[2]) # <<>>
         /\ ClearChat(c.caller[1], c.caller[2], c.env)
         /\ last'.status = "ok")
        => Snapshot(c.caller[2])

\* C30: every PromptHistory entry created by consolidation has
\* full_prompt_before equal to the prompt recomputed just before it was added
\* and full_prompt_after equal to full_prompt_before, a blank line and
\* added_prompt, which is the current_prompt stored at that commit; among the
\* surviving entries in creation order each full_prompt_before equals the
\* previous entry's full_prompt_after (the first one's equals initial_prompt),
\* after any sequence of consolidations and undo-last calls.
C30_AuditChain ==
    /\ [](\A i \in 1..Len(db.agents) : Chained(db.agents[i]))
    /\ [][C30_Step]_vars

\* a consolidation followed an undo-last: the prompt stored when it began
\* still held the undone delta, and the new entry's snapshot does not
C30_Witness ==
    /\ last.op = "clear_chat" /\ last.status = "ok"
    /\ db.prompt_history # <<>>
    /\ db.prompt_history[Len(db.prompt_history)].full_prompt_before # last.prompt_before

-----------------------------------------------------------------------------
(* service.py: send_batch_messages_to_agent step by step.  c_pc is the     *)
(* step the call is about to take, c_in its frame (arguments, locals and   *)
(* the transaction), c_out what it returned or raised.                     *)

\* rows inserted by one flush get their created_at from the same
\* DEFAULT CURRENT_TIMESTAMP, which counts whole seconds
created_together(a, b) == a.batch_id = b.batch_id /\ a.role = b.role

\* the orders in which order_by(created_at.asc()) may return the rows: rows
\* created together in any order
message_orders(rows) ==
    { [k \in 1..Len(rows) |-> rows[f[k]]] :
        f \in { g \in [1..Len(rows) -> 1..Len(rows)] :
                  /\ \A a, b \in 1..Len(rows) : a # b => g[a] # g[b]
                  /\ \A a, b \in 1..Len(rows) :
                        (a < b /\ g[a] > g[b]) => created_together(rows[g[a]], rows[g[b]]) } }

Turn(role, content) == [role |-> role, content |-> content]

\* lines 945-964: the system prompt, the history without the current batch,
\* the current messages; history_messages is what the query returned
batch_context(enhanced_prompt, history_messages, batch_id, filtered_messages) ==
    <<Turn("system", JStr(enhanced_prompt))>>
    \o [i \in 1..Len(SelectSeq(history_messages, LAMBDA m : m.batch_id # batch_id)) |->
          Turn(SelectSeq(history_messages, LAMBDA m : m.batch_id # batch_id)[i].role,
               SelectSeq(history_messages, LAMBDA m : m.batch_id # batch_id)[i].content)]
    \o [i \in 1..Len(filtered_messages) |-> Turn("user", JStr(filtered_messages[i]))]

NoFrame == <<>>

BatchFrame(b, ordered, committed) ==
    [user |-> b.caller[1], agent_id |-> b.caller[2], user_messages |-> b.messages,
     env |-> b.env @@ [ordered |-> ordered, day |-> today],
     began |-> committed,       \* the committed rows when the call began
     working |-> committed,     \* the transaction: committed rows and its own changes
     current_prompt |-> <<>>, filtered_messages |-> <<>>, session_id |-> 0, batch_id |-> 0,
     intent_result |-> <<>>, retrieved |-> FALSE, knowledge_context |-> <<>>,
     enhanced_prompt |-> <<>>, messages |-> <<>>, raw_response |-> <<>>, ai_replies |-> <<>>]

\* lines 1006-1009: db.rollback(); raise
Failed(committed, status) ==
    /\ c_pc' = "FAILED"
    /\ c_in' = [c_in EXCEPT !.working = rollback(committed, c_in.working)]
    /\ c_out' = status
    /\ db' = committed

Advance(pc, frame) ==
    /\ c_pc' = pc
    /\ c_in' = frame
    /\ UNCHANGED <<c_out, db>>

\* the call is made
BatchBegin(b) ==
    /\ c_pc \in {"idle", "DONE", "FAILED"}
    /\ Len(db.messages) < MaxChat
    /\ \E ordered \in query_orders(db.knowledge_indexes, b.caller[2]) :
          c_in' = BatchFrame(b, ordered, db)
    /\ c_pc' = "VALIDATE"
    /\ c_out' = <<>>
    /\ UNCHANGED <<db, today, last, parse_vars, validate_vars>>

\* lines 875-887: the agent, its prompt recomputed, the messages validated
StepValidate ==
    /\ c_pc = "VALIDATE"
    /\ LET found == get_agent_for_user(c_in.working, c_in.user, c_in.agent_id)
       IN  IF found = <<>> THEN Failed(db, "ValueError")
           ELSE IF ~validate_batch_messages(c_in.user_messages).valid
           THEN Failed(db, "ValueError")
           ELSE Advance("PERSIST_INPUTS",
                    [c_in EXCEPT
                        !.current_prompt = calculate_current_prompt(c_in.working, found[1]),
                        !.working = SetCurrentPrompt(c_in.working, c_in.agent_id,
                                        calculate_current_prompt(c_in.working, found[1])),
                        !.filtered_messages = filtered(c_in.user_messages)])
    /\ UNCHANGED <<today, last, parse_vars, validate_vars>>

\* lines 891-910: the session, the batch id, the user messages flushed
StepPersistInputs ==
    /\ c_pc = "PERSIST_INPUTS"
    /\ \E w1 \in { get_or_create_agent_session(c_in.working, c_in.agent_id) } :
          /\ c_in' = [c_in EXCEPT
                        !.session_id = find_session(w1, c_in.agent_id)[1].id,
                        !.batch_id = FreshBatchId(w1),
                        !.working = [w1 EXCEPT !.messages =
                            @ \o UserRows(w1, find_session(w1, c_in.agent_id)[1].id,
                                          FreshBatchId(w1), c_in.filtered_messages)]]
          \* get_or_create_agent_session commits when it creates
          /\ db' = IF find_session(db, c_in.agent_id) = <<>> THEN w1 ELSE db
    /\ c_pc' = "CLASSIFY"
    /\ UNCHANGED <<c_out, today, last, parse_vars, validate_vars>>

\* lines 912-930: the intent; whether the knowledge base is asked
StepClassify ==
    /\ c_pc = "CLASSIFY"
    /\ \E intent_result \in { detect_agent_intent(c_in.env.completion).v } :
          Advance(IF needs_knowledge(intent_result)
                  THEN "RETRIEVE_KNOWLEDGE" ELSE "COMPOSE_PROMPT",
                  [c_in EXCEPT !.intent_result = intent_result])
    /\ UNCHANGED <<today, last, parse_vars, validate_vars>>

\* lines 931-935
StepRetrieveKnowledge ==
    /\ c_pc = "RETRIEVE_KNOWLEDGE"
    /\ \E r \in { query_knowledge_base_by_params(c_in.env.ordered,
                      c_in.intent_result.query_params, c_in.env.day,
                      c_in.env.fail = "index") } :
          IF r.ok
          THEN Advance("COMPOSE_PROMPT",
                       [c_in EXCEPT !.knowledge_context = r.v, !.retrieved = TRUE])
          ELSE Failed(db, "error")
    /\ UNCHANGED <<today, last, parse_vars, validate_vars>>

\* lines 938-942
StepComposePrompt ==
    /\ c_pc = "COMPOSE_PROMPT"
    /\ \E r \in { build_agent_prompt(c_in.current_prompt, c_in.knowledge_context) } :
          IF r.ok
          THEN Advance("BUILD_CONTEXT", [c_in EXCEPT !.enhanced_prompt = r.v])
          ELSE Failed(db, "error")
    /\ UNCHANGED <<today, last, parse_vars, validate_vars>>

\* lines 944-964
StepBuildContext ==
    /\ c_pc = "BUILD_CONTEXT"
    /\ \E history_messages \in
            message_orders(get_agent_session_messages(c_in.working, c_in.session_id)) :
          Advance("CALL_MODEL",
                  [c_in EXCEPT !.messages =
                      batch_context(c_in.enhanced_prompt, history_messages,
                                    c_in.batch_id, c_in.filtered_messages)])
    /\ UNCHANGED <<today, last, parse_vars, validate_vars>>

\* lines 966-975
StepCallModel ==
    /\ c_pc = "CALL_MODEL"
    /\ IF c_in.env.fail = "model" THEN Failed(db, "error")
       ELSE Advance("PARSE_REPLIES", [c_in EXCEPT !.raw_response = c_in.env.raw])
    /\ UNCHANGED <<today, last, parse_vars, validate_vars>>

\* lines 979-980
StepParseReplies ==
    /\ c_pc = "PARSE_REPLIES"
    /\ Advance("PERSIST_OUTPUTS",
               [c_in EXCEPT !.ai_replies =
                   safe_parse_agent_reply(c_in.raw_response, c_in.env.rnd)])
    /\ UNCHANGED <<today, last, parse_vars, validate_vars>>

\* lines 984-1004: the replies added, the commit, the return
StepPersistOutputs ==
    /\ c_pc = "PERSIST_OUTPUTS"
    /\ \E r \in { batch_store(db, c_in.working, c_in.session_id, c_in.batch_id,
                              c_in.current_prompt, c_in.ai_replies, c_in.env.fail) } :
          IF r.status = "ok"
          THEN /\ c_pc' = "DONE"
               /\ c_in' = [c_in EXCEPT !.working = r.db]
               /\ c_out' = "ok"
               /\ db' = r.db
          ELSE Failed(db, "error")
    /\ UNCHANGED <<today, last, parse_vars, validate_vars>>

InitSteps ==
    /\ DbIdle /\ ParseIdle /\ ValidateIdle
    /\ c_pc = "idle" /\ c_in = NoFrame /\ c_out = <<>>

NextSteps ==
    \/ (c_pc \in {"idle", "DONE", "FAILED"} /\ CreateAgent)
    \/ \E b \in BatchCalls : BatchBegin(b)
    \/ StepValidate
    \/ StepPersistInputs
    \/ StepClassify
    \/ StepRetrieveKnowledge
    \/ StepComposePrompt
    \/ StepBuildContext
    \/ StepCallModel
    \/ StepParseReplies
    \/ StepPersistOutputs

SpecSteps == InitSteps /\ [][NextSteps]_vars


\* the step that may follow each step of send_batch_messages_to_agent
StepOrder ==
    { <<"VALIDATE", "PERSIST_INPUTS">>, <<"PERSIST_INPUTS", "CLASSIFY">>,
      <<"CLASSIFY", "RETRIEVE_KNOWLEDGE">>, <<"CLASSIFY", "COMPOSE_PROMPT">>,
      <<"RETRIEVE_KNOWLEDGE", "COMPOSE_PROMPT">>, <<"COMPOSE_PROMPT", "BUILD_CONTEXT">>,
      <<"BUILD_CONTEXT", "CALL_MODEL">>, <<"CALL_MODEL", "PARSE_REPLIES">>,
      <<"PARSE_REPLIES", "PERSIST_OUTPUTS">>, <<"PERSIST_OUTPUTS", "DONE">> }

Running == c_pc \notin {"idle", "DONE", "FAILED"}

\* the user rows of the call's batch, as the transaction holds them
InputsPersisted ==
    /\ c_in.filtered_messages # <<>>
    /\ [i \in 1..Len(SelectSeq(c_in.working.messages,
                               LAMBDA m : m.batch_id = c_in.batch_id)) |->
           SelectSeq(c_in.working.messages, LAMBDA m : m.batch_id = c_in.batch_id)[i].content]
       = [i \in 1..Len(c_in.filtered_messages) |-> JStr(c_in.filtered_messages[i])]

C25_Step ==
    Running =>
        \* one step at a time, in the order of the code, or the failed outcome
        /\ c_pc' # c_pc => (<<c_pc, c_pc'>> \in StepOrder \/ c_pc' = "FAILED")
        \* the knowledge base is asked for a knowledge query only
        /\ c_pc' = "RETRIEVE_KNOWLEDGE" =>
              c_in'.intent_result.intent = JStr(Str(KNOWLEDGE_QUERY))
        \* the model is called with the inputs persisted and the prompt composed
        /\ c_in'.raw_response # c_in.raw_response =>
              /\ InputsPersisted
              /\ c_in.enhanced_prompt # <<>>
              /\ c_in.messages # <<>>
              /\ c_in.messages[1] = Turn("system", JStr(c_in.enhanced_prompt))
        \* the replies that are committed are the parsed ones
        /\ c_pc' = "DONE" =>
              /\ c_in.ai_replies = safe_parse_agent_reply(c_in.raw_response, c_in.env.rnd)
              /\ db'.messages = c_in.working.messages
                     \o ReplyRows(c_in.working, c_in.session_id, c_in.batch_id,
                                  c_in.ai_replies)
        \* before the last step nothing of the batch is committed
        /\ c_pc # "PERSIST_OUTPUTS" => db'.messages = db.messages
        \* a failure rolls back: nothing of the batch is left
        /\ c_pc' = "FAILED" =>
              /\ c_in'.working = db'
              /\ db'.messages = c_in.began.messages
              /\ c_out' # "ok"

\* C25: every execution of send_batch takes its steps in the order validate,
\* persist inputs, classify, retrieve knowledge (for a knowledge query
\* only), compose prompt, build context, call model, parse replies, persist
\* outputs, done; the model is called after the inputs are persisted and the
\* prompt composed, the outputs persisted are the parsed replies, and a
\* failure at any step ends in the one failed outcome, rolled back.
C25_StepsInOrder == [][C25_Step]_vars

C25_Witness ==
    /\ c_pc = "DONE"
    /\ c_in.retrieved
    /\ Len(c_in.ai_replies) > 0
    /\ Len(db.messages) > Len(c_in.began.messages)


\* the session's messages committed before the call, in the order they were
\* created, as turns
CreatedOrderTurns(d, session_id) ==
    [i \in 1..Len(SelectSeq(d.messages, LAMBDA m : m.session_id = session_id)) |->
        Turn(SelectSeq(d.messages, LAMBDA m : m.session_id = session_id)[i].role,
             SelectSeq(d.messages, LAMBDA m : m.session_id = session_id)[i].content)]

\* C26: the turn list sent to the model is the composed system prompt, then
\* every session message that is not in the current batch in the order the
\* messages were created (within an earlier batch its user inputs before its
\* replies, each in batch_index order), then the trimmed inputs of the
\* current batch in input order; no message of the current batch is there
\* twice.
C26_TurnList ==
    c_pc = "CALL_MODEL" =>
        c_in.messages =
            <<Turn("system", JStr(c_in.enhanced_prompt))>>
            \o CreatedOrderTurns(c_in.began, c_in.session_id)
            \o [i \in 1..Len(NonEmptyTrimmed(c_in.user_messages)) |->
                   Turn("user", JStr(NonEmptyTrimmed(c_in.user_messages)[i]))]

-----------------------------------------------------------------------------
(* service.py: clear_chat_and_summarize and delete_latest_prompt_summary   *)
(* under concurrent callers.  Each caller has its own SQLAlchemy session:  *)
(* its queries read the rows committed so far, its changes are written at  *)
(* its commit, and the database takes one writer at a time.  A batch send  *)
(* holds the write lock from the flush of its inputs to its commit, so it  *)
(* takes effect at one point between the steps of the other callers.       *)

\* create_agent has committed the agent and its session
AgentReady == [AgentOnly EXCEPT !.sessions = <<[id |-> 1, agent_id |-> 1]>>]

\* lines 1044-1057: the agent, the session and its messages are read; with
\* no message the call returns at once
ClearRead(p, user, agent_id) ==
    /\ c_pc[p] \in {"idle", "done"}
    /\ LET found == get_agent_for_user(db, user, agent_id)
           all_messages ==
               get_agent_session_messages(db, find_session(db, agent_id)[1].id)
       IN  IF found = <<>> \/ all_messages = <<>>
           THEN /\ c_pc' = [c_pc EXCEPT ![p] = "done"]
                /\ c_in' = [c_in EXCEPT ![p] = <<>>]
                /\ c_out' = [c_out EXCEPT ![p] =
                                IF found = <<>> THEN "not_found" ELSE "noop"]
           ELSE /\ c_pc' = [c_pc EXCEPT ![p] = "summarize"]
                /\ c_in' = [c_in EXCEPT ![p] =
                               [agent |-> found[1],
                                session_id |-> find_session(db, agent_id)[1].id,
                                all_messages |-> all_messages]]
                /\ c_out' = [c_out EXCEPT ![p] = <<>>]
    /\ UNCHANGED <<db, today, last, parse_vars, validate_vars>>

\* lines 1059-1204: the model has summarized the messages read; the prompt
\* before is computed from the rows committed by now, the entry and its
\* index are added, the messages read are deleted, the commit
ClearCommit(p, env) ==
    /\ c_pc[p] = "summarize"
    /\ \E r \in { clear_parsed(db, c_in[p].agent, c_in[p].session_id,
                               c_in[p].all_messages, parse_summary(env.raw),
                               calculate_current_prompt(db, c_in[p].agent),
                               env.fail, today) } :
          \* the entries and their ids stay bounded
          /\ r.status = "ok" => /\ Len(db.prompt_history) < MaxHistory
                                /\ MaxId(db.prompt_history) <= MaxHistory
          /\ db' = r.db
          /\ c_out' = [c_out EXCEPT ![p] = r.status]
    /\ c_pc' = [c_pc EXCEPT ![p] = "done"]
    /\ UNCHANGED <<c_in, today, last, parse_vars, validate_vars>>

\* lines 400-415: the agent and its latest entry are read
UndoRead(p, user, agent_id) ==
    /\ c_pc[p] \in {"idle", "done"}
    /\ LET found == get_agent_for_user(db, user, agent_id)
           mine == OfAgent(db.prompt_history, agent_id)
       IN  IF found = <<>> \/ mine = <<>>
           THEN /\ c_pc' = [c_pc EXCEPT ![p] = "done"]
                /\ c_in' = [c_in EXCEPT ![p] = <<>>]
                /\ c_out' = [c_out EXCEPT ![p] = "not_found"]
           ELSE /\ c_pc' = [c_pc EXCEPT ![p] = "delete"]
                /\ c_in' = [c_in EXCEPT ![p] =
                               [agent |-> found[1], latest_history |-> latest_first(mine)]]
                /\ c_out' = [c_out EXCEPT ![p] = <<>>]
    /\ UNCHANGED <<db, today, last, parse_vars, validate_vars>>

\* lines 417-437: the entry read and its index are deleted, the prompt is
\* recomputed from what the query reads, the commit
delete_latest_read(d, agent, latest_history) ==
    SetCurrentPrompt(delete_history(d, latest_history), agent.id,
        calculate_current_prompt(query_view(d, delete_history(d, latest_history)), agent))

UndoCommit(p) ==
    /\ c_pc[p] = "delete"
    /\ db' = delete_latest_read(db, c_in[p].agent, c_in[p].latest_history)
    /\ c_pc' = [c_pc EXCEPT ![p] = "done"]
    /\ c_out' = [c_out EXCEPT ![p] = "ok"]
    /\ UNCHANGED <<c_in, today, last, parse_vars, validate_vars>>

InitRace ==
    /\ db = AgentReady /\ today = 1 /\ last = InitLast
    /\ c_pc = [p \in Procs |-> "idle"]
    /\ c_in = [p \in Procs |-> <<>>]
    /\ c_out = [p \in Procs |-> <<>>]
    /\ ParseIdle /\ ValidateIdle

NextRace ==
    \/ (/\ MaxId(db.messages) < MaxChat      \* the message ids stay bounded
        /\ \E m \in ValidInputs : SendBatchWithin(MaxChat, Owner, 1, m, QuietEnv))
    \/ \E p \in Procs : ClearRead(p, Owner, 1)
    \/ \E p \in Procs : \E fail \in {"none", "commit"} :
          ClearCommit(p, [SummaryEnv EXCEPT !.fail = fail])
    \/ \E p \in Procs : UndoRead(p, Owner, 1)
    \/ \E p \in Procs : UndoCommit(p)

SpecRace == InitRace /\ [][NextRace]_vars

\* a caller commits a consolidation in this step
Folds(p) ==
    /\ c_pc[p] = "summarize" /\ c_pc'[p] = "done"
    /\ Len(db'.prompt_history) > Len(db.prompt_history)

IsLive(d, m) == \E i \in 1..Len(d.messages) : d.messages[i] = m

C28_Step ==
    \* the messages an entry is made of were live until its commit: no other
    \* entry has been made of them
    /\ \A p \in Procs :
          Folds(p) => \A i \in 1..Len(c_in[p].all_messages) :
                          IsLive(db, c_in[p].all_messages[i])
    \* a message that leaves the transcript is one of those the entry
    \* committed by this step is made of
    /\ \A i \in 1..Len(db.messages) :
          ~IsLive(db', db.messages[i]) =>
              \E p \in Procs :
                  /\ Folds(p)
                  /\ \E k \in 1..Len(c_in[p].all_messages) :
                        c_in[p].all_messages[k] = db.messages[i]

\* C28: when two consolidation calls on one agent interleave, also with a
\* concurrent batch send, every transcript message stays live or is folded
\* into exactly one PromptHistory/KnowledgeIndex entry: no messages are
\* summarized into two entries, none is deleted without being part of a
\* committed summary.
C28_FoldedOnce == [][C28_Step]_vars

C29_Step ==
    \A i \in 1..Len(db.prompt_history) :
        (\A k \in 1..Len(db'.prompt_history) :
              db'.prompt_history[k].id # db.prompt_history[i].id)
        => \A j \in (i + 1)..Len(db.prompt_history) :
              db.prompt_history[j].agent_id # db.prompt_history[i].agent_id

\* C29: also when an undo-last call and a consolidation call on one agent
\* interleave, no PromptHistory entry is deleted while an entry created
\* after it survives: the entries that remain are the oldest ones.
C29_StackDiscipline == [][C29_Step]_vars
====
